---- MODULE Spec2Model ----
(***************************************************************************)
(* State-machine model of the visualdb edit orchestrator (src/src/App.tsx) *)
(* together with the schema input panel, the table schema editor and the   *)
(* schemaGraph.json persistence channel.                                   *)
(*                                                                         *)
(* Every action is one event handler run to completion followed by the     *)
(* React effects it triggers, settled to a fixpoint (Settle).              *)
(***************************************************************************)
EXTENDS Integers, Sequences, FiniteSets, TLC

(***************************************************************************)
(* JavaScript values.  An optional value (a field that may be undefined)   *)
(* is the empty set or a singleton; an undefined string is NoName.         *)
(***************************************************************************)
None == {}
Some(v) == {v}
TheOne(o) == CHOOSE v \in o : TRUE
\* o ?? d
OrElse(o, d) == IF o = {} THEN d ELSE TheOne(o)

\* undefined / null where the code holds a string
NoName == "<undefined>"
\* what renameMap[name] yields for a key inherited from Object.prototype
InheritedValue == "<inherited>"
\* keys every plain object literal inherits
ObjectPrototypeKeys == {"constructor", "__proto__", "toString", "valueOf", "hasOwnProperty"}

Range(s) == { s[i] : i \in 1..Len(s) }
MapSeq(s, F(_)) == [i \in 1..Len(s) |-> F(s[i])]
FilterSeq(s, P(_)) == SelectSeq(s, P)

\* Array.from(new Set(arr)): first occurrences, in order
RECURSIVE Dedupe(_)
Dedupe(s) ==
  IF s = <<>> THEN <<>>
  ELSE LET init == Dedupe(SubSeq(s, 1, Len(s) - 1))
           last == s[Len(s)]
       IN  IF last \in Range(init) THEN init ELSE Append(init, last)

\* arr.find(P): the first element satisfying P, as an optional
FindFirst(s, P(_)) ==
  LET hits == { i \in 1..Len(s) : P(s[i]) }
  IN  IF hits = {} THEN None
      ELSE Some(s[CHOOSE i \in hits : \A j \in hits : i <= j])

TableNamesOf(tables) == MapSeq(tables, LAMBDA t : t.name)

\* the array after splice(i, 1), for i within the array (1-based here)
RemoveAt(seq, i) == [j \in 1..(Len(seq) - 1) |-> IF j < i THEN seq[j] ELSE seq[j + 1]]
\* the array after splice(i, 0, v), for i within the array or one past its end
InsertAt(seq, i, v) ==
  [j \in 1..(Len(seq) + 1) |-> IF j < i THEN seq[j] ELSE IF j = i THEN v ELSE seq[j - 1]]

\* A Record<string, V>: the own keys in insertion order and the value at each
EmptyNodes == [keys |-> <<>>, at |-> <<>>]
\* { ...nodes, [key]: value } / acc[key] = value: an existing key keeps its
\* place in the order, a new key goes last
SetKey(nodes, key, value) ==
  [keys |-> IF key \in Range(nodes.keys) THEN nodes.keys ELSE Append(nodes.keys, key),
   at |-> [k \in DOMAIN nodes.at \cup {key} |-> IF k = key THEN value ELSE nodes.at[k]]]
\* Object.fromEntries(Object.entries(nodes).filter(([name]) => keep.has(name)))
\* Object.entries(nodes).reduce((acc, [name, value]) => { acc[name === from ? to
\* : name] = value; return acc; }, {}): entries are written in insertion
\* order, so of two entries landing on one key the later one stays
RECURSIVE RenameKey(_, _, _, _, _)
RenameKey(nodes, from, to, acc, i) ==
  IF i > Len(nodes.keys) THEN acc
  ELSE LET name == nodes.keys[i]
       IN  RenameKey(nodes, from, to,
                     SetKey(acc, IF name = from THEN to ELSE name, nodes.at[name]), i + 1)

FilterKeys(nodes, keep) ==
  [keys |-> SelectSeq(nodes.keys, LAMBDA k : k \in keep),
   at |-> [k \in DOMAIN nodes.at \cap keep |-> nodes.at[k]]]

(***************************************************************************)
(* Pure functions of App.tsx                                               *)
(***************************************************************************)

\* buildRenameMap: a function from the removed name to the added name when
\* exactly one of each exists, else the empty object
buildRenameMap(previousTables, nextTables) ==
  LET previousNames == Dedupe(TableNamesOf(previousTables))
      nextNames     == Dedupe(TableNamesOf(nextTables))
      removed == FilterSeq(previousNames, LAMBDA n : n \notin Range(nextNames))
      added   == FilterSeq(nextNames, LAMBDA n : n \notin Range(previousNames))
  IN  IF Len(removed) = 1 /\ Len(added) = 1
      THEN [n \in {removed[1]} |-> added[1]]
      ELSE [n \in {} |-> n]

\* renameMap[name] ?? name on a plain object
RenameLookup(renameMap, name) ==
  IF name \in DOMAIN renameMap THEN renameMap[name]
  ELSE IF name \in ObjectPrototypeKeys THEN InheritedValue
  ELSE name

\* sanitizeScenarioTables without the existence filter
sanitizeWithoutFilter(scenarios, tables, renameMap) ==
  MapSeq(scenarios,
         LAMBDA scenario :
           [scenario EXCEPT !.tableNames =
              Dedupe(MapSeq(scenario.tableNames, LAMBDA n : RenameLookup(renameMap, n)))])

\* sanitizeScenarioTables dropping the scenarios left without a table
sanitizeDroppingEmptyScenarios(scenarios, tables, renameMap) ==
  LET tableSet == Range(TableNamesOf(tables))
      normalizedTables(scenario) ==
        Dedupe(FilterSeq(MapSeq(scenario.tableNames,
                                LAMBDA n : RenameLookup(renameMap, n)),
                         LAMBDA n : n \in tableSet))
  IN  FilterSeq(MapSeq(scenarios,
                       LAMBDA scenario :
                         [scenario EXCEPT !.tableNames = normalizedTables(scenario)]),
                LAMBDA scenario : scenario.tableNames # <<>>)

sanitizeScenarioTables(scenarios, tables, renameMap) ==
  LET tableSet == Range(TableNamesOf(tables))
      normalizedTables(scenario) ==
        Dedupe(FilterSeq(MapSeq(scenario.tableNames,
                                LAMBDA n : RenameLookup(renameMap, n)),
                         LAMBDA n : n \in tableSet))
  IN  MapSeq(scenarios,
             LAMBDA scenario : [scenario EXCEPT !.tableNames = normalizedTables(scenario)])

\* the search continuing after the largest suffix in use
UniqueCandidateAfterLast(base, existing, counter) ==
  LET used == { k \in 1..Cardinality(existing) : (base \o "_" \o ToString(k)) \in existing }
      top == IF used = {} THEN 0 ELSE CHOOSE k \in used : \A j \in used : j <= k
  IN  base \o "_" \o ToString(top + 1)

RECURSIVE UniqueCandidate(_, _, _)
UniqueCandidate(base, existing, counter) ==
  LET candidate == base \o "_" \o ToString(counter)
  IN  IF candidate \in existing THEN UniqueCandidate(base, existing, counter + 1)
      ELSE candidate

generateUniqueTableName(base, tables) ==
  LET existing == Range(TableNamesOf(tables))
  IN  IF base \notin existing THEN base ELSE UniqueCandidate(base, existing, 1)

serializeGraph(graph) ==
  [kind |-> "object",
   value |-> [tables |-> Some(graph.tables), relations |-> Some(graph.relations),
              positions |-> graph.positions, scenarios |-> graph.scenarios]]

\* JSON.parse followed by the structural check both ingress points make
\* (SchemaInputPanel handleSubmit / handleFileLoad, loadSchemaFromFile)
ShapeOk(value) == value.tables # None /\ value.relations # None

ParseGraph(raw) ==
  IF raw.kind = "invalid" THEN [ok |-> FALSE, message |-> "SyntaxError"]
  ELSE IF raw.kind = "null" THEN [ok |-> FALSE, message |-> "TypeError"]
  ELSE IF ~ShapeOk(raw.value)
       THEN [ok |-> FALSE, message |-> "Graph payload must include tables and relations"]
  ELSE [ok |-> TRUE, message |-> NoName,
        graph |-> [tables |-> TheOne(raw.value.tables),
                   relations |-> TheOne(raw.value.relations),
                   positions |-> raw.value.positions,
                   scenarios |-> raw.value.scenarios]]

attachColumnForeignKeys(table, relations) ==
  LET related == FilterSeq(relations,
                   LAMBDA rel : rel.fromTable = table.name
                                /\ Len(rel.fromColumns) = 1 /\ Len(rel.toColumns) = 1)
      hydrate(column) ==
        LET match == FindFirst(related, LAMBDA rel : rel.fromColumns[1] = column.name)
        IN  IF match = None THEN column
            ELSE [column EXCEPT !.foreignKey =
                    Some([table |-> TheOne(match).toTable,
                          column |-> TheOne(match).toColumns[1],
                          onDelete |-> TheOne(match).onDelete,
                          onUpdate |-> TheOne(match).onUpdate])]
  IN  [table EXCEPT !.columns = MapSeq(table.columns, hydrate)]

\* a ?? b on optional strings
Coalesce(a, b) == IF a # NoName THEN a ELSE b

\* arr.flatMap(F)
FlatMapSeq(s, F(_)) ==
  LET acc[i \in 0..Len(s)] == IF i = 0 THEN <<>> ELSE acc[i - 1] \o F(s[i])
  IN  acc[Len(s)]

\* buildRelationsFromColumns taking both rules from the column alone
buildRelationsFromColumnsOnly(graph, table) ==
  LET existingRelations == FilterSeq(graph.relations, LAMBDA rel : rel.fromTable = table.name)
      derive(column) ==
        IF column.foreignKey = None THEN <<>>
        ELSE LET fk == TheOne(column.foreignKey)
                 match == FindFirst(existingRelations,
                            LAMBDA rel : Len(rel.fromColumns) >= 1
                                         /\ rel.fromColumns[1] = column.name)
                 matchName == IF match = None THEN NoName ELSE TheOne(match).name
             IN  << [name |-> Coalesce(matchName, "fk_" \o table.name \o "_" \o column.name),
                     fromTable |-> table.name,
                     fromColumns |-> <<column.name>>,
                     toTable |-> fk.table,
                     toColumns |-> <<fk.column>>,
                     onDelete |-> fk.onDelete,
                     onUpdate |-> fk.onUpdate] >>
  IN  FlatMapSeq(table.columns, derive)

buildRelationsFromColumns(graph, table) ==
  LET existingRelations == FilterSeq(graph.relations, LAMBDA rel : rel.fromTable = table.name)
      derive(column) ==
        IF column.foreignKey = None THEN <<>>
        ELSE LET fk == TheOne(column.foreignKey)
                 match == FindFirst(existingRelations,
                            LAMBDA rel : Len(rel.fromColumns) >= 1
                                         /\ rel.fromColumns[1] = column.name)
                 matchName == IF match = None THEN NoName ELSE TheOne(match).name
                 matchDel  == IF match = None THEN NoName ELSE TheOne(match).onDelete
                 matchUpd  == IF match = None THEN NoName ELSE TheOne(match).onUpdate
             IN  << [name |-> Coalesce(matchName, "fk_" \o table.name \o "_" \o column.name),
                     fromTable |-> table.name,
                     fromColumns |-> <<column.name>>,
                     toTable |-> fk.table,
                     toColumns |-> <<fk.column>>,
                     onDelete |-> Coalesce(fk.onDelete, matchDel),
                     onUpdate |-> Coalesce(fk.onUpdate, matchUpd)] >>
  IN  FlatMapSeq(table.columns, derive)

\* buildPrimaryKeys without the filter
buildPrimaryKeysOfAllColumns(columns) == MapSeq(columns, LAMBDA col : col.name)

\* TableSchemaEditor
buildPrimaryKeys(columns) ==
  MapSeq(FilterSeq(columns, LAMBDA col : col.isPrimary), LAMBDA col : col.name)

updateTableColumns(table, columns) ==
  [table EXCEPT !.columns = columns, !.primaryKey = buildPrimaryKeys(columns)]

\* Scene3D.tsx: the spacing of the fallback grid
FallbackSpacing == 4

\* Math.ceil(Math.sqrt(n)) for a count n
CeilSqrt(n) == CHOOSE c \in 0..n : c * c >= n /\ \A d \in 0..(c - 1) : d * d < n

\* the cell of the 0-based index idx in a grid of that many columns
GridCell(idx, columns) ==
  <<(idx % columns) * FallbackSpacing, 0, (idx \div columns) * FallbackSpacing>>

\* grid[table.name] = [...] in forEach: a later table of the same name overwrites
computeFallbackPositions(tables) ==
  LET columns == CeilSqrt(Len(tables))
      lastOf(name) == CHOOSE i \in 1..Len(tables) :
                        /\ tables[i].name = name
                        /\ \A j \in (i + 1)..Len(tables) : tables[j].name # name
  IN  [name \in Range(TableNamesOf(tables)) |-> GridCell(lastOf(name) - 1, columns)]

(***************************************************************************)
(* The bundled example (mockData.ts), reduced to two tables, one relation  *)
(* and two scenarios.  As in the bundled file, the foreign key lives in    *)
(* the relation list only: no committed column carries a foreignKey.       *)
(***************************************************************************)
Col(n, pk) == [name |-> n, isPrimary |-> pk, foreignKey |-> None]
Tbl(n, cols) == [name |-> n, columns |-> cols, primaryKey |-> buildPrimaryKeys(cols)]
Rel(n, ft, fc, tt, tc, upd, del) ==
  [name |-> n, fromTable |-> ft, fromColumns |-> fc, toTable |-> tt, toColumns |-> tc,
   onDelete |-> del, onUpdate |-> upd]
Pos(px, py, pz) == [x |-> px, y |-> py, z |-> pz]
Step(o, d) == [order |-> o, description |-> d]
Scn(i, n, names, steps) == [id |-> i, name |-> n, tableNames |-> names, steps |-> steps]

UsersTable == Tbl("users", <<Col("id", TRUE)>>)
OrdersTable == Tbl("orders", <<Col("id", TRUE), Col("user_id", FALSE)>>)
FkOrdersUser == Rel("fk_orders_user", "orders", <<"user_id">>, "users", <<"id">>, "CASCADE", "CASCADE")

mockGraph ==
  [tables |-> <<UsersTable, OrdersTable>>,
   relations |-> <<FkOrdersUser>>,
   positions |-> Some(SetKey(SetKey(EmptyNodes, "users", Pos(-4, 1, -2)),
                             "orders", Pos(0, 0, 0))),
   scenarios |-> Some(<<Scn("scenario-1", "journey", <<"users", "orders">>,
                            Some(<<Step(1, "lookup"), Step(2, "review")>>)),
                        Scn("scenario-2", "catalog", <<"orders">>,
                            Some(<<Step(1, "register")>>))>>)]

\* App(): defaultGraph
defaultGraph ==
  [mockGraph EXCEPT !.scenarios =
     Some(sanitizeScenarioTables(OrElse(mockGraph.scenarios, <<>>), mockGraph.tables, <<>>))]

(***************************************************************************)
(* State                                                                   *)
(***************************************************************************)
VARIABLES
  graph,               \* current document
  layers,              \* the orchestrator's scenario list
  activeTable,         \* selection: a table name or NoName
  isEditing,
  draftTable,          \* optional Table
  isCreatingTable,
  tableEditOrigin,     \* name or NoName
  activeLayerId,       \* scenario id or NoName
  isLayerCreation,
  isScenarioEditing,
  layerDraftSelection, \* a JS Set: distinct names in insertion order
  draftLayerName,
  layerNameInput,
  flowDrafts,
  error,               \* SchemaInputPanel's inline message, or NoName
  pending,             \* save requests in flight (bodies)
  store,               \* schemaGraph.json: optional text
  boot,                \* "loading" until the startup load has resolved
  now,                 \* last value read from Date.now()
  last,                \* the last event: [op, a, b]
  drag                 \* the view's drag gesture: idle, or a table with its candidate

appVars == <<graph, layers, activeTable, isEditing, draftTable, isCreatingTable,
             tableEditOrigin, activeLayerId, isLayerCreation, isScenarioEditing,
             layerDraftSelection, draftLayerName, layerNameInput, flowDrafts>>
vars == <<graph, layers, activeTable, isEditing, draftTable, isCreatingTable,
          tableEditOrigin, activeLayerId, isLayerCreation, isScenarioEditing,
          layerDraftSelection, draftLayerName, layerNameInput, flowDrafts,
          error, pending, store, boot, now, last, drag>>

\* The component state of one render, with the save requests issued so far.
\* relFresh / stepsFresh: the handler installed a new relations array / new
\* steps arrays (effect dependencies compare by reference).
St ==
  [graph |-> graph, layers |-> layers, activeTable |-> activeTable,
   isEditing |-> isEditing, draftTable |-> draftTable,
   isCreatingTable |-> isCreatingTable, tableEditOrigin |-> tableEditOrigin,
   activeLayerId |-> activeLayerId, isLayerCreation |-> isLayerCreation,
   isScenarioEditing |-> isScenarioEditing,
   layerDraftSelection |-> layerDraftSelection, draftLayerName |-> draftLayerName,
   layerNameInput |-> layerNameInput, flowDrafts |-> flowDrafts,
   pending |-> pending, relFresh |-> FALSE, stepsFresh |-> FALSE]

Install(s) ==
  /\ graph' = s.graph
  /\ layers' = s.layers
  /\ activeTable' = s.activeTable
  /\ isEditing' = s.isEditing
  /\ draftTable' = s.draftTable
  /\ isCreatingTable' = s.isCreatingTable
  /\ tableEditOrigin' = s.tableEditOrigin
  /\ activeLayerId' = s.activeLayerId
  /\ isLayerCreation' = s.isLayerCreation
  /\ isScenarioEditing' = s.isScenarioEditing
  /\ layerDraftSelection' = s.layerDraftSelection
  /\ draftLayerName' = s.draftLayerName
  /\ layerNameInput' = s.layerNameInput
  /\ flowDrafts' = s.flowDrafts
  /\ pending' = s.pending

(***************************************************************************)
(* Derived values (useMemo)                                                *)
(***************************************************************************)
selectedTable(s) == FindFirst(s.graph.tables, LAMBDA t : t.name = s.activeTable)

activeLayer(s) == FindFirst(s.layers, LAMBDA layer : layer.id = s.activeLayerId)

\* the presented document, were a relation kept when either endpoint is a member
displayedGraphEitherEndpoint(s) ==
  IF s.isLayerCreation \/ s.isScenarioEditing \/ activeLayer(s) = None THEN s.graph
  ELSE LET tableSet == Range(TheOne(activeLayer(s)).tableNames)
       IN  [s.graph EXCEPT
              !.tables = FilterSeq(s.graph.tables, LAMBDA t : t.name \in tableSet),
              !.relations = FilterSeq(s.graph.relations,
                              LAMBDA rel : rel.fromTable \in tableSet \/ rel.toTable \in tableSet),
              !.positions = IF s.graph.positions = None THEN None
                            ELSE Some(FilterKeys(TheOne(s.graph.positions), tableSet))]

displayedGraph(s) ==
  IF s.isLayerCreation \/ s.isScenarioEditing \/ activeLayer(s) = None THEN s.graph
  ELSE LET tableSet == Range(TheOne(activeLayer(s)).tableNames)
       IN  [s.graph EXCEPT
              !.tables = FilterSeq(s.graph.tables, LAMBDA t : t.name \in tableSet),
              !.relations = FilterSeq(s.graph.relations,
                              LAMBDA rel : rel.fromTable \in tableSet /\ rel.toTable \in tableSet),
              !.positions = IF s.graph.positions = None THEN None
                            ELSE Some(FilterKeys(TheOne(s.graph.positions), tableSet))]

\* [...steps].sort((a, b) => a.order - b.order): a stable sort
SortByOrder(steps) ==
  LET insert(sorted, st) ==
        LET k == Cardinality({ j \in 1..Len(sorted) : sorted[j].order <= st.order })
        IN  SubSeq(sorted, 1, k) \o <<st>> \o SubSeq(sorted, k + 1, Len(sorted))
      acc[i \in 0..Len(steps)] == IF i = 0 THEN <<>> ELSE insert(acc[i - 1], steps[i])
  IN  acc[Len(steps)]

activeLayerStepsRef(s) ==
  IF activeLayer(s) = None THEN None ELSE TheOne(activeLayer(s)).steps

activeLayerSteps(s) == SortByOrder(OrElse(activeLayerStepsRef(s), <<>>))

Renumber(steps) == [i \in 1..Len(steps) |-> [steps[i] EXCEPT !.order = i]]

flowDraftSteps(s) == Renumber(s.flowDrafts)

activeLayerName(s) == IF activeLayer(s) = None THEN NoName ELSE TheOne(activeLayer(s)).name

(***************************************************************************)
(* Effects.  An effect runs after a render when one of its dependencies    *)
(* differs from the previous render; all effects of one pass read the      *)
(* values of that render, and their updates produce the next render.       *)
(***************************************************************************)
\* the selection effect, were it to test the whole document instead of the presented one
selectionEffectOnDocument(cur, s) ==
  IF cur.activeTable # NoName
     /\ ~\E t \in Range(cur.graph.tables) : t.name = cur.activeTable
  THEN [s EXCEPT !.activeTable = NoName]
  ELSE s

\* App.tsx 162-166
selectionEffect(cur, s) ==
  IF cur.activeTable # NoName
     /\ ~\E t \in Range(displayedGraph(cur).tables) : t.name = cur.activeTable
  THEN [s EXCEPT !.activeTable = NoName]
  ELSE s

\* App.tsx 205-216
draftSyncEffect(prev, cur, s) ==
  IF ~(cur.relFresh \/ prev.isCreatingTable # cur.isCreatingTable
       \/ selectedTable(prev) # selectedTable(cur))
  THEN s
  ELSE IF cur.isCreatingTable THEN s
  ELSE IF selectedTable(cur) = None
       THEN [s EXCEPT !.draftTable = None, !.isEditing = FALSE, !.tableEditOrigin = NoName]
  ELSE [s EXCEPT !.draftTable = Some(attachColumnForeignKeys(TheOne(selectedTable(cur)),
                                                            cur.graph.relations)),
                 !.tableEditOrigin = TheOne(selectedTable(cur)).name,
                 !.isEditing = FALSE]

\* App.tsx 437-439
layerNameEffect(prev, cur, s) ==
  IF activeLayerName(prev) = activeLayerName(cur) THEN s
  ELSE [s EXCEPT !.layerNameInput =
          IF activeLayerName(cur) = NoName THEN "" ELSE activeLayerName(cur)]

\* App.tsx 522-526
candidateResetEffect(cur, s) ==
  IF ~(cur.isLayerCreation \/ cur.isScenarioEditing) /\ cur.layerDraftSelection # <<>>
  THEN [s EXCEPT !.layerDraftSelection = <<>>]
  ELSE s

\* App.tsx 547-552; activeLayerSteps changes when the steps array is another object
activeLayerEffect(prev, cur, s) ==
  LET stepsChanged ==
        IF activeLayerStepsRef(prev) = None /\ activeLayerStepsRef(cur) = None THEN FALSE
        ELSE cur.stepsFresh \/ activeLayerStepsRef(prev) # activeLayerStepsRef(cur)
  IN  IF prev.activeLayerId = cur.activeLayerId /\ ~stepsChanged THEN s
      ELSE [s EXCEPT !.flowDrafts = Renumber(activeLayerSteps(cur)),
                     !.isScenarioEditing = FALSE,
                     !.layerDraftSelection = <<>>]

Rendered(s) == [s EXCEPT !.relFresh = FALSE, !.stepsFresh = FALSE]

EffectPass(prev, cur) ==
  activeLayerEffect(prev, cur,
    candidateResetEffect(cur,
      layerNameEffect(prev, cur,
        draftSyncEffect(prev, cur,
          selectionEffect(cur, Rendered(cur))))))

\* prev: the render before the handler; cur: the render after it
RECURSIVE Settle(_, _)
Settle(prev, cur) ==
  LET nx == EffectPass(prev, cur)
  IN  IF nx = Rendered(cur) THEN nx ELSE Settle(Rendered(cur), nx)

(***************************************************************************)
(* Handlers, as functions from the state of the render that created them   *)
(***************************************************************************)
\* persistSchemaToFile issuing the POST twice
persistTwice(s, g) ==
  [s EXCEPT !.pending = Append(Append(@, serializeGraph(g)), serializeGraph(g))]

\* persistSchemaToFile: one POST with the serialized graph
persistSchemaToFile(s, g) == [s EXCEPT !.pending = Append(@, serializeGraph(g))]

\* handleGraphChange leaving the active scenario id as it is
handleGraphChangeKeepingActiveId(closureTables, closureLayerId, s, next, preserveActive, skipPersist) ==
  LET renameMap == buildRenameMap(closureTables, next.tables)
      baseScenarios == OrElse(next.scenarios, <<>>)
      sanitizedScenarios == sanitizeScenarioTables(baseScenarios, next.tables, renameMap)
      nextGraph == [next EXCEPT !.scenarios = Some(sanitizedScenarios)]
      s1 == [s EXCEPT !.graph = nextGraph,
                      !.layers = sanitizedScenarios,
                      !.activeTable = IF preserveActive THEN @ ELSE NoName]
  IN  IF skipPersist THEN s1 ELSE persistSchemaToFile(s1, nextGraph)

\* handleGraphChange as a closure over closureTables (graph.tables) and
\* closureLayerId (activeLayerId) of the render that created it
handleGraphChange(closureTables, closureLayerId, s, next, preserveActive, skipPersist) ==
  LET renameMap == buildRenameMap(closureTables, next.tables)
      baseScenarios == OrElse(next.scenarios, <<>>)
      sanitizedScenarios == sanitizeScenarioTables(baseScenarios, next.tables, renameMap)
      nextGraph == [next EXCEPT !.scenarios = Some(sanitizedScenarios)]
      s1 == [s EXCEPT !.graph = nextGraph,
                      !.layers = sanitizedScenarios,
                      !.activeLayerId =
                         IF closureLayerId # NoName
                            /\ ~\E sc \in Range(sanitizedScenarios) : sc.id = closureLayerId
                         THEN NoName ELSE @,
                      !.activeTable = IF preserveActive THEN @ ELSE NoName]
  IN  IF skipPersist THEN s1 ELSE persistSchemaToFile(s1, nextGraph)

\* a handler of the current render calling handleGraphChange
Commit(s, next, preserveActive) ==
  handleGraphChange(s.graph.tables, s.activeLayerId, s, next, preserveActive, FALSE)

\* handleTableSelect adding the table to the candidates without ever removing it
handleTableSelectAddingOnly(s, tableName) ==
  LET added == IF tableName \in Range(s.layerDraftSelection) THEN s.layerDraftSelection
               ELSE Append(s.layerDraftSelection, tableName)
      s1 == IF s.isLayerCreation \/ s.isScenarioEditing
            THEN [s EXCEPT !.layerDraftSelection = added] ELSE s
      s2 == IF s.isCreatingTable
            THEN [s1 EXCEPT !.isCreatingTable = FALSE, !.draftTable = None,
                            !.isEditing = FALSE, !.tableEditOrigin = NoName]
            ELSE s1
  IN  [s2 EXCEPT !.activeTable = tableName]

handleTableSelect(s, tableName) ==
  LET toggled == IF tableName \in Range(s.layerDraftSelection)
                 THEN FilterSeq(s.layerDraftSelection, LAMBDA n : n # tableName)
                 ELSE Append(s.layerDraftSelection, tableName)
      s1 == IF s.isLayerCreation \/ s.isScenarioEditing
            THEN [s EXCEPT !.layerDraftSelection = toggled] ELSE s
      s2 == IF s.isCreatingTable
            THEN [s1 EXCEPT !.isCreatingTable = FALSE, !.draftTable = None,
                            !.isEditing = FALSE, !.tableEditOrigin = NoName]
            ELSE s1
  IN  [s2 EXCEPT !.activeTable = tableName]

\* handleLayoutChange taking all three coordinates from the drag
handleLayoutChangeFree(s, tableName, position, lockZ) ==
  LET nodes == OrElse(s.graph.positions, EmptyNodes)
      nextNodes == SetKey(nodes, tableName, Pos(position[1], position[2], position[3]))
  IN  Commit(s, [s.graph EXCEPT !.positions = Some(nextNodes)], TRUE)

\* handleLayoutChange writing the position map of the filtered document
handleLayoutChangeOnView(s, tableName, position, lockZ) ==
  LET nodes == OrElse(displayedGraph(s).positions, EmptyNodes)
      nextNodes == SetKey(nodes, tableName, Pos(position[1], position[2], position[3]))
  IN  Commit(s, [s.graph EXCEPT !.positions = Some(nextNodes)], TRUE)

handleLayoutChange(s, tableName, position, lockZ) ==
  LET nodes == OrElse(s.graph.positions, EmptyNodes)
      hasPrevious == tableName \in DOMAIN nodes.at
      y == IF hasPrevious THEN nodes.at[tableName].y ELSE position[2]
      z == IF lockZ /\ hasPrevious THEN nodes.at[tableName].z ELSE position[3]
      nextNodes == SetKey(nodes, tableName, Pos(position[1], y, z))
  IN  Commit(s, [s.graph EXCEPT !.positions = Some(nextNodes)], TRUE)

handleCancelEdit(s) ==
  IF s.isCreatingTable
  THEN [s EXCEPT !.isCreatingTable = FALSE, !.draftTable = None,
                 !.tableEditOrigin = NoName, !.isEditing = FALSE]
  ELSE IF selectedTable(s) # None
       THEN [s EXCEPT !.draftTable = Some(attachColumnForeignKeys(TheOne(selectedTable(s)),
                                                                 s.graph.relations)),
                      !.tableEditOrigin = TheOne(selectedTable(s)).name,
                      !.isEditing = FALSE]
  ELSE [s EXCEPT !.isEditing = FALSE]

handleStartTableCreation(s) ==
  LET baseName == generateUniqueTableName("new_table", s.graph.tables)
      nextTable == [name |-> baseName, columns |-> <<>>, primaryKey |-> <<>>]
  IN  [s EXCEPT !.isCreatingTable = TRUE, !.isEditing = TRUE,
                !.draftTable = Some(nextTable), !.tableEditOrigin = NoName]

handleSaveDraft(s) ==
  IF s.draftTable = None THEN s
  ELSE
  LET draft == TheOne(s.draftTable)
      updatedRelations == buildRelationsFromColumns(s.graph, draft)
      updatedTable == [draft EXCEPT !.primaryKey = buildPrimaryKeys(draft.columns)]
      originName == Coalesce(s.tableEditOrigin, draft.name)
      isNewTable == s.isCreatingTable
                    \/ ~\E t \in Range(s.graph.tables) : t.name = originName
      nextTables == IF isNewTable THEN Append(s.graph.tables, updatedTable)
                    ELSE MapSeq(s.graph.tables,
                                LAMBDA t : IF t.name = originName THEN updatedTable ELSE t)
      preservedRelations ==
        MapSeq(FilterSeq(s.graph.relations, LAMBDA rel : rel.fromTable # originName),
               LAMBDA rel : IF rel.toTable = originName
                            THEN [rel EXCEPT !.toTable = updatedTable.name] ELSE rel)
      nextPositions ==
        IF s.graph.positions # None /\ s.tableEditOrigin # NoName
           /\ s.tableEditOrigin # updatedTable.name
        THEN Some(RenameKey(TheOne(s.graph.positions), s.tableEditOrigin,
                            updatedTable.name, EmptyNodes, 1))
        ELSE s.graph.positions
      nextGraph == [s.graph EXCEPT !.tables = nextTables,
                                   !.relations = preservedRelations \o updatedRelations,
                                   !.positions = nextPositions]
      s1 == Commit(s, nextGraph, TRUE)
  IN  [s1 EXCEPT !.isEditing = FALSE, !.isCreatingTable = FALSE,
                 !.tableEditOrigin = updatedTable.name,
                 !.activeTable = updatedTable.name,
                 !.relFresh = TRUE]

\* String.prototype.trim on the names the model enters
Trim(str) == IF str = " " THEN "" ELSE str
\* a || b on strings
OrString(a, b) == IF a # "" THEN a ELSE b

\* the default name is the Korean word for scenario followed by
\* layers.length + 1; it is written "Scenario n" here
handleStartLayerCreation(s) ==
  [s EXCEPT !.activeLayerId = NoName, !.isLayerCreation = TRUE,
            !.isScenarioEditing = FALSE, !.layerDraftSelection = <<>>,
            !.draftLayerName = "Scenario " \o ToString(Len(s.layers) + 1)]

handleCancelLayerCreation(s) ==
  [s EXCEPT !.isLayerCreation = FALSE, !.isScenarioEditing = FALSE,
            !.layerDraftSelection = <<>>, !.draftLayerName = ""]

\* the save of a scenario draft, were the empty candidate set not refused
handleSaveLayerCreationUnguarded(s, dateNow) ==
  LET name == OrString(Trim(s.draftLayerName), "Scenario " \o ToString(Len(s.layers) + 1))
      nextLayer == Scn("layer-" \o ToString(dateNow), name, s.layerDraftSelection, Some(<<>>))
      nextScenarios == Append(s.layers, nextLayer)
      s1 == Commit(s, [s.graph EXCEPT !.scenarios = Some(nextScenarios)], TRUE)
  IN  [s1 EXCEPT !.activeLayerId = nextLayer.id, !.layerNameInput = name,
                 !.isLayerCreation = FALSE, !.isScenarioEditing = FALSE,
                 !.layerDraftSelection = <<>>]

\* dateNow: the value Date.now() returns
handleSaveLayerCreation(s, dateNow) ==
  IF s.layerDraftSelection = <<>> THEN s
  ELSE
  LET name == OrString(Trim(s.draftLayerName), "Scenario " \o ToString(Len(s.layers) + 1))
      nextLayer == Scn("layer-" \o ToString(dateNow), name, s.layerDraftSelection, Some(<<>>))
      nextScenarios == Append(s.layers, nextLayer)
      s1 == Commit(s, [s.graph EXCEPT !.scenarios = Some(nextScenarios)], TRUE)
  IN  [s1 EXCEPT !.activeLayerId = nextLayer.id, !.layerNameInput = name,
                 !.isLayerCreation = FALSE, !.isScenarioEditing = FALSE,
                 !.layerDraftSelection = <<>>]

handleLayerSelect(s, layerId) ==
  [s EXCEPT !.activeLayerId = layerId, !.isLayerCreation = FALSE,
            !.isScenarioEditing = FALSE, !.layerDraftSelection = <<>>]

\* resetFlowDraftsFromLayer
resetFlowDraftsFromLayer(s) == [s EXCEPT !.flowDrafts = Renumber(activeLayerSteps(s))]

handleStartScenarioEdit(s) ==
  IF activeLayer(s) = None \/ s.isLayerCreation THEN s
  ELSE [resetFlowDraftsFromLayer(s) EXCEPT
          !.isScenarioEditing = TRUE, !.isLayerCreation = FALSE,
          !.layerDraftSelection = Dedupe(TheOne(activeLayer(s)).tableNames),
          !.layerNameInput = TheOne(activeLayer(s)).name]

handleCancelScenarioEdit(s) ==
  [resetFlowDraftsFromLayer(s) EXCEPT
     !.isScenarioEditing = FALSE,
     !.layerDraftSelection = IF activeLayer(s) = None THEN <<>>
                             ELSE Dedupe(TheOne(activeLayer(s)).tableNames),
     !.layerNameInput = IF activeLayer(s) = None THEN "" ELSE TheOne(activeLayer(s)).name]

handleFlowDraftChange(s, index, description) ==
  [s EXCEPT !.flowDrafts = [i \in 1..Len(@) |->
                              IF i = index THEN [@[i] EXCEPT !.description = description]
                              ELSE @[i]]]

handleAddFlowDraft(s) ==
  [s EXCEPT !.flowDrafts = Append(@, Step(Len(@) + 1, ""))]

handleRemoveFlowDraft(s, index) ==
  IF index \notin 1..Len(s.flowDrafts) THEN s
  ELSE [s EXCEPT !.flowDrafts =
          [i \in 1..(Len(@) - 1) |-> IF i < index THEN @[i] ELSE @[i + 1]]]

\* index and target are 1-based here; direction is -1 (up) or 1 (down)
\* handleReorderFlowDraft moving the step to the far end when the target is outside
handleReorderFlowDraftWrapping(s, index, direction) ==
  LET prev == s.flowDrafts
      target == index + direction
      wrapped == IF target < 1 THEN Len(prev) ELSE IF target > Len(prev) THEN 1 ELSE target
  IN  [s EXCEPT !.flowDrafts = InsertAt(RemoveAt(prev, index), wrapped, prev[index])]

handleReorderFlowDraft(s, index, direction) ==
  LET prev == s.flowDrafts
      target == index + direction
  IN  IF target < 1 \/ target > Len(prev) THEN s
      ELSE [s EXCEPT !.flowDrafts = InsertAt(RemoveAt(prev, index), target, prev[index])]

\* handleSaveScenarioEdit keeping the order values the draft steps carry
handleSaveScenarioEditKeepingOrder(s) ==
  IF activeLayer(s) = None THEN s
  ELSE
  LET layer == TheOne(activeLayer(s))
      updatedLayer == [layer EXCEPT !.steps = Some(s.flowDrafts),
                                    !.tableNames = s.layerDraftSelection]
      nextScenarios == MapSeq(s.layers, LAMBDA l : IF l.id = layer.id THEN updatedLayer ELSE l)
      s1 == Commit(s, [s.graph EXCEPT !.scenarios = Some(nextScenarios)], TRUE)
  IN  [s1 EXCEPT !.isScenarioEditing = FALSE, !.layerDraftSelection = <<>>,
                 !.stepsFresh = TRUE]

\* the placeholder of an empty step is the Korean word for step followed by
\* its position; it is written "Step n" here
handleSaveScenarioEdit(s) ==
  IF activeLayer(s) = None THEN s
  ELSE
  LET layer == TheOne(activeLayer(s))
      sanitizedName == OrString(Trim(s.layerNameInput), layer.name)
      drafts == flowDraftSteps(s)
      normalizedSteps ==
        [i \in 1..Len(drafts) |->
           Step(i, OrString(Trim(drafts[i].description), "Step " \o ToString(i)))]
      updatedLayer == [layer EXCEPT !.name = sanitizedName,
                                    !.steps = Some(normalizedSteps),
                                    !.tableNames = s.layerDraftSelection]
      nextScenarios == MapSeq(s.layers, LAMBDA l : IF l.id = layer.id THEN updatedLayer ELSE l)
      s1 == Commit(s, [s.graph EXCEPT !.scenarios = Some(nextScenarios)], TRUE)
  IN  [s1 EXCEPT !.isScenarioEditing = FALSE, !.layerDraftSelection = <<>>,
                 !.stepsFresh = TRUE]

\* the deletion of the active scenario, were the answer to the confirmation ignored
handleDeleteLayerUnasked(s, confirmed) ==
  IF activeLayer(s) = None THEN s
  ELSE
  LET layer == TheOne(activeLayer(s))
      nextScenarios == FilterSeq(s.layers, LAMBDA l : l.id # layer.id)
      s1 == Commit(s, [s.graph EXCEPT !.scenarios = Some(nextScenarios)], TRUE)
  IN  [s1 EXCEPT !.activeLayerId = NoName, !.isScenarioEditing = FALSE,
                 !.isLayerCreation = FALSE, !.layerDraftSelection = <<>>,
                 !.layerNameInput = ""]

handleDeleteLayer(s, confirmed) ==
  IF activeLayer(s) = None \/ ~confirmed THEN s
  ELSE
  LET layer == TheOne(activeLayer(s))
      nextScenarios == FilterSeq(s.layers, LAMBDA l : l.id # layer.id)
      s1 == Commit(s, [s.graph EXCEPT !.scenarios = Some(nextScenarios)], TRUE)
  IN  [s1 EXCEPT !.activeLayerId = NoName, !.isScenarioEditing = FALSE,
                 !.isLayerCreation = FALSE, !.layerDraftSelection = <<>>,
                 !.layerNameInput = ""]

\* handleSubmit falling back to the bundled document when the text is rejected
handleSubmitWithFallback(s, raw) ==
  LET parsed == ParseGraph(raw)
  IN  [Commit(s, IF parsed.ok THEN parsed.graph ELSE defaultGraph, FALSE)
         EXCEPT !.relFresh = TRUE, !.stepsFresh = TRUE]

\* SchemaInputPanel.handleSubmit -> onSubmit = handleGraphChange
handleSubmit(s, raw) ==
  LET parsed == ParseGraph(raw)
  IN  IF ~parsed.ok THEN s
      ELSE [Commit(s, parsed.graph, FALSE) EXCEPT !.relFresh = TRUE, !.stepsFresh = TRUE]

\* SchemaInputPanel.handleFileLoad -> handleSchemaFileLoad -> handleGraphChange
handleFileLoad(s, raw) ==
  LET parsed == ParseGraph(raw)
  IN  IF ~parsed.ok THEN s
      ELSE [Commit(s, parsed.graph, FALSE) EXCEPT !.relFresh = TRUE, !.stepsFresh = TRUE]

\* the message both ingress handlers leave in the panel
SubmitError(raw) == ParseGraph(raw).message

\* loadSchemaFromFile on the text of the response (stored = None: the response is not
\* ok): null on 404, on a parse error and on a failed shape check
loadSchemaFromFile(stored) ==
  IF stored = None THEN None
  ELSE LET parsed == ParseGraph(TheOne(stored))
       IN  IF parsed.ok THEN Some(parsed.graph) ELSE None

\* bootstrapFromFile runs in the mount effect: its handleGraphChange is the one
\* of the first render, closed over defaultGraph.tables and activeLayerId = null
bootstrapFromFile(s, stored) ==
  LET loaded == loadSchemaFromFile(stored)
  IN  IF loaded = None THEN s
      ELSE [handleGraphChange(defaultGraph.tables, NoName, s, TheOne(loaded), TRUE, TRUE)
              EXCEPT !.relFresh = TRUE, !.stepsFresh = TRUE]

(***************************************************************************)
(* vite.config.ts: the middleware in front of schemaGraph.json.  A request *)
(* is [method, url, body]; the result is the file afterwards and the       *)
(* response, or handled = FALSE when the middleware calls next().          *)
(***************************************************************************)
SchemaUrl == "/schemaGraph.json"

\* JSON.parse(body) returns: null and any object are JSON
JsonParses(body) == body.kind # "invalid"

Passed(stored) ==
  [store |-> stored, handled |-> FALSE, status |-> "next", content |-> None]

Answered(stored, status, content) ==
  [store |-> stored, handled |-> TRUE, status |-> status, content |-> content]

\* the middleware, were the body written before it is parsed
schemaMiddlewareWritingFirst(stored, req) ==
  IF req.url # SchemaUrl THEN Passed(stored)
  ELSE IF req.method = "GET"
       THEN IF stored = None THEN Answered(stored, "404", None)
            ELSE Answered(stored, "200", stored)
  ELSE IF req.method = "POST"
       THEN IF JsonParses(req.body) THEN Answered(Some(req.body), "200", None)
            ELSE Answered(Some(req.body), "400", None)
  ELSE Answered(stored, "405", None)

schemaMiddleware(stored, req) ==
  IF req.url # SchemaUrl THEN Passed(stored)
  ELSE IF req.method = "GET"
       THEN IF stored = None THEN Answered(stored, "404", None)
            ELSE Answered(stored, "200", stored)
  ELSE IF req.method = "POST"
       THEN IF JsonParses(req.body) THEN Answered(Some(req.body), "200", None)
            ELSE Answered(stored, "400", None)
  ELSE Answered(stored, "405", None)

\* what is left of the development server once the middleware has called next(): it
\* serves the files under its root, and schemaGraph.json is one of them when the server
\* runs in the directory of vite.config.ts; it has no answer with the document otherwise
DevServerAnswers(stored) == {stored, None}

\* the GET of loadSchemaFromFile, whose url carries the query ?t=<Date.now()>: what the
\* response holds (None when it is not ok) and who produced it
StartupResponses(stored, dateNow) ==
  LET response == schemaMiddleware(stored, [method |-> "GET",
                                            url |-> SchemaUrl \o "?t=" \o ToString(dateNow)])
  IN  IF response.handled
      THEN { [content |-> response.content, by |-> "schemaMiddleware"] }
      ELSE { [content |-> content, by |-> "next"] : content \in DevServerAnswers(stored) }

(***************************************************************************)
(* TableSchemaEditor: the tables it hands to onChange (handleDraftChange)  *)
(***************************************************************************)
handleColumnChange(table, index, nextColumn) ==
  updateTableColumns(table, [i \in 1..Len(table.columns) |->
                               IF i = index THEN nextColumn ELSE table.columns[i]])

handleToggle(table, index) ==
  handleColumnChange(table, index,
    [table.columns[index] EXCEPT !.isPrimary = ~table.columns[index].isPrimary])

\* value: <<>> for the empty option, else <<table, column>>
handleFkChange(table, index, value) ==
  LET previous == table.columns[index].foreignKey
  IN  IF value = <<>>
      THEN handleColumnChange(table, index, [table.columns[index] EXCEPT !.foreignKey = None])
      ELSE handleColumnChange(table, index,
             [table.columns[index] EXCEPT !.foreignKey =
                Some([table |-> value[1], column |-> value[2],
                      onDelete |-> IF previous = None THEN NoName ELSE TheOne(previous).onDelete,
                      onUpdate |-> IF previous = None THEN NoName ELSE TheOne(previous).onUpdate])])

\* value || undefined
handleFkActionChange(table, index, key, value) ==
  LET target == table.columns[index]
      rule == IF value = "" THEN NoName ELSE value
  IN  IF target.foreignKey = None THEN table
      ELSE handleColumnChange(table, index,
             [target EXCEPT !.foreignKey =
                Some(IF key = "onDelete"
                     THEN [TheOne(target.foreignKey) EXCEPT !.onDelete = rule]
                     ELSE [TheOne(target.foreignKey) EXCEPT !.onUpdate = rule])])

addColumn(table) ==
  updateTableColumns(table,
    Append(table.columns, Col("column_" \o ToString(Len(table.columns) + 1), FALSE)))

fkOptions(table, tables) ==
  UNION { { <<t.name, t.columns[i].name>> : i \in 1..Len(t.columns) } :
          t \in { u \in Range(tables) : u.name # table.name } }

\* handleDraftChange writing the draft through to the document
handleDraftChangeWriteThrough(s, next) ==
  [s EXCEPT !.draftTable = Some(next),
            !.graph.tables = MapSeq(@, LAMBDA t : IF t.name = s.tableEditOrigin THEN next ELSE t)]

handleDraftChange(s, next) == [s EXCEPT !.draftTable = Some(next)]

(***************************************************************************)
(* Inputs                                                                  *)
(***************************************************************************)
\* user intents per run
\* the events of a run of the whole application: an intent or a processed save
\* request counts one, an intent that brings a new document or position two
MaxIntents == 3
\* how many intents the view emits in a run of one table editing session
MaxEditIntents == 4
\* the events of a run of drags: a drag counts two, a selection one
MaxLayoutIntents == 4
\* how many intents the view emits in a run of one scenario editing session
MaxScenarioIntents == 5
\* how many intents the view emits in a run of scenario creations and deletions
MaxCreationIntents == 6
\* how many pointer events and intents a run of drag gestures holds
MaxGestureEvents == 5
\* how many intents a run of successive renaming table edits holds
MaxRenameIntents == 6
\* the events of a run of drags and processed saves: a drag counts two, a save one
MaxSaveEvents == 6
\* the events of a run that starts editing before the startup load resolves: a
\* submit counts two
MaxEarlyIntents == 4
\* the events of a run that commits layout and scenario changes during a table edit: a
\* drag counts two
MaxMixedIntents == 5
\* how many requests and intents a run against the middleware holds
MaxRequests == 4
\* how many intents the view emits in a run of table creations
MaxNameIntents == 3
\* the largest k of a stored table named new_table_k
MaxNameSuffix == 3

EmptyObject == [tables |-> None, relations |-> None, positions |-> None, scenarios |-> None]

\* users renamed to customers by hand; relations and scenarios still say users
RenamedDoc ==
  [EmptyObject EXCEPT
     !.tables = Some(<<Tbl("customers", <<Col("id", TRUE)>>), OrdersTable>>),
     !.relations = Some(<<FkOrdersUser>>),
     !.scenarios = Some(<<Scn("scenario-1", "journey", <<"users", "orders">>, None)>>)]

\* users and orders removed, customers and invoices added
AmbiguousDoc ==
  [EmptyObject EXCEPT
     !.tables = Some(<<Tbl("customers", <<Col("id", TRUE)>>),
                       Tbl("invoices", <<Col("id", TRUE)>>)>>),
     !.relations = Some(<<>>),
     !.positions = Some(SetKey(EmptyNodes, "customers", Pos(1, 0, 1))),
     !.scenarios = Some(<<Scn("scenario-1", "journey", <<"users", "orders", "customers">>, None)>>)]

\* a self-referencing table whose primaryKey was written by hand, a two-column relation,
\* a scenario with a repeated and an unknown name
AccountsDoc ==
  [EmptyObject EXCEPT
     !.tables = Some(<<UsersTable,
                       [Tbl("accounts", <<Col("id", TRUE), Col("parent_id", FALSE)>>)
                          EXCEPT !.primaryKey = <<"parent_id">>]>>),
     !.relations = Some(<<Rel("fk_parent", "accounts", <<"parent_id">>, "accounts", <<"id">>,
                              NoName, "CASCADE"),
                          Rel("fk_pair", "accounts", <<"id", "parent_id">>, "users",
                              <<"id", "id">>, NoName, NoName)>>),
     !.scenarios = Some(<<Scn("scenario-9", "tree", <<"orders", "accounts", "accounts", "ghost">>,
                              Some(<<Step(5, "x"), Step(9, "y")>>)),
                          Scn("scenario-8", "legacy", <<"orders">>, None)>>)]

\* a table whose name is a property every JavaScript object inherits
ConstructorDoc ==
  [EmptyObject EXCEPT
     !.tables = Some(<<Tbl("constructor", <<Col("id", TRUE)>>)>>),
     !.relations = Some(<<>>),
     !.scenarios = Some(<<Scn("scenario-1", "journey", <<"constructor">>, None)>>)]

\* tables and relations only
BareDoc ==
  [EmptyObject EXCEPT !.tables = Some(<<OrdersTable>>), !.relations = Some(<<>>)]

RawIds == {"invalid", "null", "noTables", "noRelations", "renamed", "ambiguous", "accounts",
           "bare", "constructor"}

RawInput(id) ==
  CASE id = "invalid"     -> [kind |-> "invalid", value |-> EmptyObject]
    [] id = "null"        -> [kind |-> "null", value |-> EmptyObject]
    [] id = "noTables"    -> [kind |-> "object", value |-> [RenamedDoc EXCEPT !.tables = None]]
    [] id = "noRelations" -> [kind |-> "object", value |-> [RenamedDoc EXCEPT !.relations = None]]
    [] id = "renamed"     -> [kind |-> "object", value |-> RenamedDoc]
    [] id = "ambiguous"   -> [kind |-> "object", value |-> AmbiguousDoc]
    [] id = "accounts"    -> [kind |-> "object", value |-> AccountsDoc]
    [] id = "bare"        -> [kind |-> "object", value |-> BareDoc]
    [] id = "constructor" -> [kind |-> "object", value |-> ConstructorDoc]

SubmitIds == RawIds
ImportIds == {"invalid", "null", "noTables", "noRelations", "bare"}
\* what schemaGraph.json may hold at startup: nothing, a broken file, a document
InitialStores == {None, Some(RawInput("noRelations")), Some(RawInput("accounts"))}

\* stored documents whose tables are any of new_table, new_table_1, ...
GeneratedNames ==
  [i \in 1..(MaxNameSuffix + 1) |->
     IF i = 1 THEN "new_table" ELSE "new_table_" \o ToString(i - 1)]

NameDoc(chosen) ==
  [EmptyObject EXCEPT
     !.tables = Some(MapSeq(FilterSeq(GeneratedNames, LAMBDA n : n \in chosen),
                            LAMBDA n : Tbl(n, <<Col("id", TRUE)>>))),
     !.relations = Some(<<>>)]

NameStores ==
  { Some([kind |-> "object", value |-> NameDoc(chosen)]) : chosen \in SUBSET Range(GeneratedNames) }

TableNameInputs == {"customers", "users"}
ColumnNameInputs == {"id"}
FkActionInputs == {"", "SET NULL"}
\* requests any client may send to the development server
RequestMethods == {"GET", "POST", "PUT", "DELETE"}
RequestUrls == {SchemaUrl, SchemaUrl \o "?t=0"}
RequestBodyIds == {"invalid", "null", "bare"}
DragPositions == {<<5, 0, 3>>, <<7, 2, 9>>}
LayerNameInputs == {"", "plan"}
FlowTextInputs == {"", "pack"}

\* the tables handleDraftChange can receive: what the editor emits for the
\* draft and, since the handler takes any Table and handleSaveDraft compares
\* the draft's name with tableEditOrigin, the draft under another name (the
\* bundled editor has no field for the table name)
EditorOutputs(table, tables) ==
  UNION { { handleToggle(table, i) }
          \cup { handleFkChange(table, i, v) : v \in fkOptions(table, tables) \cup {<<>>} }
          \cup { handleFkActionChange(table, i, k, v) :
                    k \in {"onDelete", "onUpdate"}, v \in FkActionInputs }
          \cup { handleColumnChange(table, i, [table.columns[i] EXCEPT !.name = n]) :
                    n \in ColumnNameInputs }
          : i \in 1..Len(table.columns) }
  \cup { addColumn(table) }
  \cup { [table EXCEPT !.name = n] : n \in TableNameInputs }

(***************************************************************************)
(* Initial state: the first render, before the startup load has resolved   *)
(***************************************************************************)
\* no gesture in progress
Idle == [phase |-> "idle", table |-> NoName, candidate |-> <<0, 0, 0>>, isValid |-> TRUE]

\* a table held by the pointer at a candidate position; isValid: the candidate does not
\* overlap another table's footprint
Dragging(tableName, candidatePosition, isValid) ==
  [phase |-> "dragging", table |-> tableName, candidate |-> candidatePosition,
   isValid |-> isValid]

\* last: the event that produced the state, and the intents the run has left
Mounted(budget, stores) ==
  /\ graph = defaultGraph
  /\ layers = OrElse(defaultGraph.scenarios, <<>>)
  /\ activeTable = NoName
  /\ isEditing = FALSE
  /\ draftTable = None
  /\ isCreatingTable = FALSE
  /\ tableEditOrigin = NoName
  /\ activeLayerId = NoName
  /\ isLayerCreation = FALSE
  /\ isScenarioEditing = FALSE
  /\ layerDraftSelection = <<>>
  /\ draftLayerName = ""
  /\ layerNameInput = ""
  /\ flowDrafts = <<>>
  /\ error = NoName
  /\ pending = <<>>
  /\ store \in stores
  /\ boot = "loading"
  /\ now = 0
  /\ last = [op |-> "mount", a |-> NoName, b |-> NoName, left |-> budget]
  /\ drag = Idle

Init == Mounted(MaxIntents, InitialStores)

InitEdit == Mounted(MaxEditIntents, InitialStores)

InitLayout == Mounted(MaxLayoutIntents, InitialStores)

InitNames == Mounted(MaxNameIntents, NameStores)

InitScenario == Mounted(MaxScenarioIntents, InitialStores)

InitCreation == Mounted(MaxCreationIntents, InitialStores)

InitServer == Mounted(MaxRequests, InitialStores)

InitDrag == Mounted(MaxGestureEvents, InitialStores)

InitRename == Mounted(MaxRenameIntents, {None})

InitSaves == Mounted(MaxSaveEvents, {None})

InitEarly == Mounted(MaxEarlyIntents, InitialStores)

InitMixed == Mounted(MaxMixedIntents, {None})

(***************************************************************************)
(* Actions: one per intent (handler plus settled effects) and per network  *)
(* event.  The view layer may emit any intent at any time; the guards are  *)
(* the handlers' own.                                                      *)
(***************************************************************************)
Budget == last.left > 0

BudgetForInput == last.left > 1

Intent(op, a, b) == last' = [op |-> op, a |-> a, b |-> b, left |-> last.left - 1]

IntentWithInput(op, a, b) == last' = [op |-> op, a |-> a, b |-> b, left |-> last.left - 2]

Network(op, a, b) == last' = [op |-> op, a |-> a, b |-> b, left |-> last.left]

\* run the handler's result through the effects and make it the state
Render(s) == Install(Settle(St, s))

Flag(b) == IF b THEN "yes" ELSE "no"

SubmitDocument ==
  \E id \in SubmitIds :
    /\ BudgetForInput
    /\ Render(handleSubmit(St, RawInput(id)))
    /\ error' = SubmitError(RawInput(id))
    /\ IntentWithInput("submitDocument", id, Flag(ParseGraph(RawInput(id)).ok))
    /\ UNCHANGED <<drag, store, boot, now>>

ImportFile ==
  \E id \in ImportIds :
    /\ BudgetForInput
    /\ Render(handleFileLoad(St, RawInput(id)))
    /\ error' = SubmitError(RawInput(id))
    /\ IntentWithInput("import", id, Flag(ParseGraph(RawInput(id)).ok))
    /\ UNCHANGED <<drag, store, boot, now>>

\* a click on a table of the scene or of the table list, both of which show the
\* tables of displayedGraph
SelectTable ==
  \E name \in Range(TableNamesOf(displayedGraph(St).tables)) :
    /\ Budget
    /\ Render(handleTableSelect(St, name))
    /\ Intent("selectTable", name, NoName)
    /\ UNCHANGED <<drag, error, store, boot, now>>

\* the edit button: setIsEditing(true), shown for a selected table out of edit mode
BeginEdit ==
  /\ Budget
  /\ ~isEditing /\ selectedTable(St) # None
  /\ Render([St EXCEPT !.isEditing = TRUE])
  /\ Intent("beginEdit", activeTable, NoName)
  /\ UNCHANGED <<drag, error, store, boot, now>>

BeginTableCreation ==
  /\ Budget
  /\ Render(handleStartTableCreation(St))
  /\ Intent("beginTableCreation", NoName, NoName)
  /\ UNCHANGED <<drag, error, store, boot, now>>

\* the editor is mounted while (isEditing || isCreatingTable) && draftTable
ChangeDraft ==
  /\ Budget
  /\ (isEditing \/ isCreatingTable) /\ draftTable # None
  /\ \E next \in EditorOutputs(TheOne(draftTable), graph.tables) :
       /\ Render(handleDraftChange(St, next))
       /\ Intent("changeDraft", TheOne(draftTable).name, next.name)
  /\ UNCHANGED <<drag, error, store, boot, now>>

SaveDraft ==
  /\ Budget
  /\ Render(handleSaveDraft(St))
  /\ Intent(IF draftTable = None THEN "saveDraftNoop" ELSE "saveDraft",
            tableEditOrigin,
            IF draftTable = None THEN NoName ELSE TheOne(draftTable).name)
  /\ UNCHANGED <<drag, error, store, boot, now>>

CancelDraftEdit ==
  /\ Budget
  /\ Render(handleCancelEdit(St))
  /\ Intent("cancelDraftEdit", NoName, NoName)
  /\ UNCHANGED <<drag, error, store, boot, now>>

\* how last records a drag: the released position and the lock
DragLabel(position, lockZ) ==
  ToString(position[1]) \o "," \o ToString(position[2]) \o "," \o ToString(position[3])
    \o (IF lockZ THEN " lockZ" ELSE "")

UpdateLayoutPosition ==
  \E name \in Range(TableNamesOf(displayedGraph(St).tables)),
     position \in DragPositions, lockZ \in BOOLEAN :
    /\ BudgetForInput
    /\ Render(handleLayoutChange(St, name, position, lockZ))
    /\ IntentWithInput("updateLayoutPosition", name, DragLabel(position, lockZ))
    /\ UNCHANGED <<drag, error, store, boot, now>>

\* a pointer event of the view: it moves the gesture and is no intent of the orchestrator
Gesture(op, a, b) ==
  last' = [op |-> op, a |-> a, b |-> b, left |-> last.left - 1]

\* the pointer goes down on a table of the scene
PointerDown ==
  \E name \in Range(TableNamesOf(displayedGraph(St).tables)), position \in DragPositions :
    /\ Budget
    /\ drag.phase = "idle"
    /\ drag' = Dragging(name, position, TRUE)
    /\ Gesture("pointerDown", name, DragLabel(position, FALSE))
    /\ UNCHANGED <<appVars, pending, error, store, boot, now>>

\* the pointer moves: a new candidate, which overlaps another table or does not
PointerMove ==
  \E position \in DragPositions, isValid \in BOOLEAN :
    /\ Budget
    /\ drag.phase = "dragging"
    /\ drag' = Dragging(drag.table, position, isValid)
    /\ Gesture("pointerMove", drag.table, DragLabel(position, FALSE))
    /\ UNCHANGED <<appVars, pending, error, store, boot, now>>

\* a release that commits the candidate whether or not it overlaps
PointerReleaseCommittingAlways ==
  \E lockZ \in BOOLEAN :
    /\ Budget
    /\ drag.phase = "dragging"
    /\ drag' = Idle
    /\ Render(handleLayoutChange(St, drag.table, drag.candidate, lockZ))
    /\ Gesture("pointerRelease", drag.table, DragLabel(drag.candidate, lockZ))
    /\ UNCHANGED <<error, store, boot, now>>

\* the pointer is released: a valid candidate goes to handleLayoutChange, an overlapping
\* one is dropped and the table is shown at its last valid position again
PointerRelease ==
  \E lockZ \in BOOLEAN :
    /\ Budget
    /\ drag.phase = "dragging"
    /\ drag' = Idle
    /\ IF drag.isValid
       THEN /\ Render(handleLayoutChange(St, drag.table, drag.candidate, lockZ))
            /\ Gesture("pointerRelease", drag.table, DragLabel(drag.candidate, lockZ))
       ELSE /\ UNCHANGED <<appVars, pending>>
            /\ Gesture("pointerRelease", drag.table, "reverted")
    /\ UNCHANGED <<error, store, boot, now>>

BeginScenarioCreation ==
  /\ Budget
  /\ Render(handleStartLayerCreation(St))
  /\ Intent("beginScenarioCreation", NoName, NoName)
  /\ UNCHANGED <<drag, error, store, boot, now>>

CancelScenarioCreation ==
  /\ Budget
  /\ isLayerCreation
  /\ Render(handleCancelLayerCreation(St))
  /\ Intent("cancelScenarioCreation", NoName, NoName)
  /\ UNCHANGED <<drag, error, store, boot, now>>

ChangeDraftLayerName ==
  \E name \in LayerNameInputs :
    /\ Budget
    /\ isLayerCreation
    /\ Render([St EXCEPT !.draftLayerName = name])
    /\ Intent("changeDraftLayerName", name, NoName)
    /\ UNCHANGED <<drag, error, store, boot, now>>

\* Date.now() never runs backwards; it may return the value it returned last
SaveScenarioCreation ==
  \E dateNow \in {now, now + 1} :
    /\ Budget
    /\ isLayerCreation
    /\ Render(handleSaveLayerCreation(St, dateNow))
    /\ now' = IF layerDraftSelection = <<>> THEN now ELSE dateNow
    /\ Intent(IF layerDraftSelection = <<>> THEN "saveScenarioCreationNoop"
              ELSE "saveScenarioCreation", "layer-" \o ToString(dateNow), NoName)
    /\ UNCHANGED <<drag, error, store, boot>>

SelectScenario ==
  \E layerId \in { l.id : l \in Range(layers) } \cup {NoName} :
    /\ Budget
    /\ Render(handleLayerSelect(St, layerId))
    /\ Intent("selectScenario", layerId, NoName)
    /\ UNCHANGED <<drag, error, store, boot, now>>

BeginScenarioEdit ==
  /\ Budget
  /\ Render(handleStartScenarioEdit(St))
  /\ Intent("beginScenarioEdit", activeLayerId, NoName)
  /\ UNCHANGED <<drag, error, store, boot, now>>

CancelScenarioEdit ==
  /\ Budget
  /\ isScenarioEditing
  /\ Render(handleCancelScenarioEdit(St))
  /\ Intent("cancelScenarioEdit", NoName, NoName)
  /\ UNCHANGED <<drag, error, store, boot, now>>

ChangeLayerName ==
  \E name \in LayerNameInputs :
    /\ Budget
    /\ isScenarioEditing
    /\ Render([St EXCEPT !.layerNameInput = name])
    /\ Intent("changeLayerName", name, NoName)
    /\ UNCHANGED <<drag, error, store, boot, now>>

EditDraftStep ==
  \E index \in 1..Len(flowDrafts), text \in FlowTextInputs :
    /\ Budget
    /\ isScenarioEditing
    /\ Render(handleFlowDraftChange(St, index, text))
    /\ Intent("editDraftStep", ToString(index), text)
    /\ UNCHANGED <<drag, error, store, boot, now>>

AddDraftStep ==
  /\ Budget
  /\ isScenarioEditing
  /\ Render(handleAddFlowDraft(St))
  /\ Intent("addDraftStep", NoName, NoName)
  /\ UNCHANGED <<drag, error, store, boot, now>>

RemoveDraftStep ==
  \E index \in 1..Len(flowDrafts) :
    /\ Budget
    /\ isScenarioEditing
    /\ Render(handleRemoveFlowDraft(St, index))
    /\ Intent("removeDraftStep", ToString(index), NoName)
    /\ UNCHANGED <<drag, error, store, boot, now>>

ReorderDraftStep ==
  \E index \in 1..Len(flowDrafts), direction \in {-1, 1} :
    /\ Budget
    /\ isScenarioEditing
    /\ Render(handleReorderFlowDraft(St, index, direction))
    /\ Intent("reorderDraftStep", ToString(index), ToString(direction))
    /\ UNCHANGED <<drag, error, store, boot, now>>

SaveScenarioEdit ==
  /\ Budget
  /\ isScenarioEditing
  /\ Render(handleSaveScenarioEdit(St))
  /\ Intent(IF activeLayer(St) = None THEN "saveScenarioEditNoop" ELSE "saveScenarioEdit",
            activeLayerId, NoName)
  /\ UNCHANGED <<drag, error, store, boot, now>>

\* window.confirm answers confirmed
DeleteScenario ==
  \E confirmed \in BOOLEAN :
    /\ Budget
    /\ activeLayer(St) # None
    /\ Render(handleDeleteLayer(St, confirmed))
    /\ Intent(IF confirmed THEN "deleteScenario" ELSE "deleteScenarioDeclined",
              activeLayerId, NoName)
    /\ UNCHANGED <<drag, error, store, boot, now>>

\* the startup GET resolves and bootstrapFromFile applies it
BootstrapLoad ==
  \E response \in StartupResponses(store, now) :
    /\ boot = "loading"
    /\ boot' = "done"
    /\ Render(bootstrapFromFile(St, response.content))
    /\ Network("bootstrapLoad", Flag(loadSchemaFromFile(response.content) # None),
               response.by)
    /\ UNCHANGED <<drag, error, store, now>>


\* the middleware handles one request, sent by any client of the server
HandleRequest ==
  \E method \in RequestMethods, url \in RequestUrls, id \in RequestBodyIds :
    LET response == schemaMiddleware(store, [method |-> method, url |-> url,
                                             body |-> RawInput(id)])
    IN  /\ Budget
        /\ store' = response.store
        /\ Intent("request", method \o " " \o url, id \o " " \o response.status)
        /\ UNCHANGED <<drag, appVars, pending, error, boot, now>>

\* the middleware handles one POST of persistSchemaToFile
SaveDelivered ==
  \E i \in 1..Len(pending) :
    /\ Budget
    /\ store' = schemaMiddleware(store, [method |-> "POST", url |-> SchemaUrl,
                                         body |-> pending[i]]).store
    /\ pending' = RemoveAt(pending, i)
    /\ Intent("saveDelivered", NoName, NoName)
    /\ UNCHANGED <<drag, appVars, error, boot, now>>

\* a failed save that puts the bundled document back
SaveFailedReverts ==
  \E i \in 1..Len(pending) :
    /\ Budget
    /\ pending' = RemoveAt(pending, i)
    /\ graph' = defaultGraph
    /\ Intent("saveFailed", NoName, NoName)
    /\ UNCHANGED <<drag, layers, activeTable, isEditing, draftTable, isCreatingTable,
                   tableEditOrigin, activeLayerId, isLayerCreation, isScenarioEditing,
                   layerDraftSelection, draftLayerName, layerNameInput, flowDrafts,
                   error, store, boot, now>>

\* fetch rejects (store unreachable) or the write is refused: console.error only
SaveFailed ==
  \E i \in 1..Len(pending) :
    /\ Budget
    /\ pending' = RemoveAt(pending, i)
    /\ Intent("saveFailed", NoName, NoName)
    /\ UNCHANGED <<drag, appVars, error, store, boot, now>>

Next ==
  \/ SubmitDocument
  \/ ImportFile
  \/ SelectTable
  \/ BeginEdit
  \/ BeginTableCreation
  \/ ChangeDraft
  \/ SaveDraft
  \/ CancelDraftEdit
  \/ UpdateLayoutPosition
  \/ BeginScenarioCreation
  \/ CancelScenarioCreation
  \/ ChangeDraftLayerName
  \/ SaveScenarioCreation
  \/ SelectScenario
  \/ BeginScenarioEdit
  \/ CancelScenarioEdit
  \/ ChangeLayerName
  \/ EditDraftStep
  \/ AddDraftStep
  \/ RemoveDraftStep
  \/ ReorderDraftStep
  \/ SaveScenarioEdit
  \/ DeleteScenario
  \/ BootstrapLoad
  \/ SaveDelivered
  \/ SaveFailed

Spec == Init /\ [][Next]_vars

\* one table editing session, from the startup load to the save
NextEdit ==
  \/ BootstrapLoad
  \/ SelectTable
  \/ BeginEdit
  \/ BeginTableCreation
  \/ ChangeDraft
  \/ SaveDraft
  \/ CancelDraftEdit

SpecEdit == InitEdit /\ [][NextEdit]_vars

\* drags of the tables on view, with and without a scenario filter
NextLayout ==
  \/ BootstrapLoad
  \/ SelectTable
  \/ SelectScenario
  \/ UpdateLayoutPosition

SpecLayout == InitLayout /\ [][NextLayout]_vars

\* one scenario editing session, from the startup load to the save
NextScenario ==
  \/ BootstrapLoad
  \/ SelectScenario
  \/ BeginScenarioEdit
  \/ CancelScenarioEdit
  \/ ChangeLayerName
  \/ EditDraftStep
  \/ AddDraftStep
  \/ RemoveDraftStep
  \/ ReorderDraftStep
  \/ SaveScenarioEdit

SpecScenario == InitScenario /\ [][NextScenario]_vars

\* scenario creations and deletions: the creation button, clicks on tables that toggle
\* candidates, the save of the draft, the deletion of the active scenario
NextCreation ==
  \/ BootstrapLoad
  \/ BeginScenarioCreation
  \/ SelectTable
  \/ SaveScenarioCreation
  \/ DeleteScenario

SpecCreation == InitCreation /\ [][NextCreation]_vars

\* the development server: requests of any client, and the saves of a table creation
NextServer ==
  \/ BootstrapLoad
  \/ HandleRequest
  \/ BeginTableCreation
  \/ SaveDraft
  \/ SaveDelivered

SpecServer == InitServer /\ [][NextServer]_vars

\* drag gestures on the scene, under a scenario filter or not
NextDrag ==
  \/ BootstrapLoad
  \/ SelectScenario
  \/ PointerDown
  \/ PointerMove
  \/ PointerRelease

SpecDrag == InitDrag /\ [][NextDrag]_vars

\* successive edits of committed tables, each saved
NextRename ==
  \/ BootstrapLoad
  \/ SelectTable
  \/ BeginEdit
  \/ ChangeDraft
  \/ SaveDraft

SpecRename == InitRename /\ [][NextRename]_vars

\* successive commits and the store processing their save requests, none failing
NextSaves ==
  \/ BootstrapLoad
  \/ UpdateLayoutPosition
  \/ SaveDelivered

SpecSaves == InitSaves /\ [][NextSaves]_vars

\* a document submitted and one of its scenarios opened for editing while the startup
\* load may still be outstanding
NextEarly ==
  \/ BootstrapLoad
  \/ SubmitDocument
  \/ SelectScenario
  \/ BeginScenarioEdit

SpecEarly == InitEarly /\ [][NextEarly]_vars

\* a table edit in progress while positions and scenarios are committed
NextMixed ==
  \/ BootstrapLoad
  \/ SelectTable
  \/ BeginEdit
  \/ ChangeDraft
  \/ UpdateLayoutPosition
  \/ BeginScenarioCreation
  \/ SaveScenarioCreation
  \/ SelectScenario
  \/ BeginScenarioEdit
  \/ SaveScenarioEdit
  \/ DeleteScenario

SpecMixed == InitMixed /\ [][NextMixed]_vars

\* table creations on stored documents that already use generated names
NextNames ==
  \/ BootstrapLoad
  \/ BeginTableCreation
  \/ SaveDraft
  \/ CancelDraftEdit

SpecNames == InitNames /\ [][NextNames]_vars

(***************************************************************************)
(* Properties                                                              *)
(***************************************************************************)
NoDuplicates(seq) == \A i, j \in 1..Len(seq) : seq[i] = seq[j] => i = j

ScenariosOf(g) == OrElse(g.scenarios, <<>>)

TableNameSet(g) == Range(TableNamesOf(g.tables))

ScenarioById(g, id) == FindFirst(ScenariosOf(g), LAMBDA sc : sc.id = id)

\* C1: after any sequence of committing intents, every scenario of the current
\* document lists each table at most once and lists only tables of the document
C1_ScenarioTablesSanitized ==
  \A i \in 1..Len(ScenariosOf(graph)) :
    /\ NoDuplicates(ScenariosOf(graph)[i].tableNames)
    /\ Range(ScenariosOf(graph)[i].tableNames) \subseteq TableNameSet(graph)

\* a submitted document whose scenario repeated a table and named unknown ones
C1_Witness ==
  /\ last.op = "submitDocument" /\ last.a = "accounts"
  /\ ScenarioById(graph, "scenario-9") # None
  /\ TheOne(ScenarioById(graph, "scenario-9")).tableNames = <<"accounts">>

ColumnsWithForeignKey(t) == { i \in 1..Len(t.columns) : t.columns[i].foreignKey # None }

RelationsFrom(g, name) == { j \in 1..Len(g.relations) : g.relations[j].fromTable = name }

ForeignKeysMatchRelations(g, t) ==
  /\ \A i \in ColumnsWithForeignKey(t) :
        Cardinality({ j \in RelationsFrom(g, t.name) :
                        g.relations[j].fromColumns = <<t.columns[i].name>> }) = 1
  /\ \A j \in RelationsFrom(g, t.name) :
        \E i \in ColumnsWithForeignKey(t) :
          g.relations[j].fromColumns = <<t.columns[i].name>>

\* C2: after saveDraft, for every table T of the resulting document, the
\* relations from T and the columns of T that carry a foreignKey are in
\* one-to-one correspondence
C2_EveryTableMatchesAfterSave ==
  last.op = "saveDraft" =>
    \A k \in 1..Len(graph.tables) : ForeignKeysMatchRelations(graph, graph.tables[k])

\* the save of an existing table whose draft name differs from its origin name
IsRenamingSave ==
  /\ last'.op = "saveDraft"
  /\ last'.a # NoName /\ last'.a # last'.b
  /\ ~isCreatingTable
  /\ last'.a \in TableNameSet(graph)

C4_SubmitRenameReachesRelations ==
  (last.op = "submitDocument" /\ last.a = "renamed") =>
    /\ \E k \in 1..Len(graph.relations) :
          /\ graph.relations[k].fromTable = "orders"
          /\ graph.relations[k].fromColumns = <<"user_id">>
          /\ graph.relations[k].toTable = "customers"
          /\ graph.relations[k].toColumns = <<"id">>
    /\ \A k \in 1..Len(graph.relations) : graph.relations[k].toTable # "users"
    /\ \A sc \in Range(ScenariosOf(graph)) :
          sc.id = "scenario-1" => "customers" \in Range(sc.tableNames)

\* the document a step brings in, when the step is a submit, an import or the
\* startup load
Incoming ==
  IF last'.op = "bootstrapLoad"
  THEN IF last'.a = "yes" THEN loadSchemaFromFile(store) ELSE None
  ELSE IF last'.op \in {"submitDocument", "import"} /\ ParseGraph(RawInput(last'.a)).ok
       THEN Some(ParseGraph(RawInput(last'.a)).graph)
  ELSE None

\* C5: a commit is a rename iff exactly one table name was removed and exactly
\* one added relative to the previous document; then the removed name is
\* replaced by the added one, and in every other case each scenario keeps
\* exactly the names it listed that still exist
C5_RenameOnlyWhenOneRemovedOneAdded ==
  [][Incoming # None =>
       LET next == TheOne(Incoming)
           removed == TableNameSet(graph) \ TableNameSet(next)
           added == TableNameSet(next) \ TableNameSet(graph)
           isRename == Cardinality(removed) = 1 /\ Cardinality(added) = 1
           mapped(n) == IF isRename /\ n \in removed THEN CHOOSE a \in added : TRUE ELSE n
       IN  /\ Len(ScenariosOf(graph')) = Len(ScenariosOf(next))
           /\ \A i \in 1..Len(ScenariosOf(next)) :
                 Range(ScenariosOf(graph')[i].tableNames) =
                   { mapped(n) : n \in Range(ScenariosOf(next)[i].tableNames) }
                     \cap TableNameSet(next)]_vars

Malformed(raw) ==
  \/ raw.kind \in {"invalid", "null"}
  \/ raw.value.tables = None
  \/ raw.value.relations = None

\* C6: a submitted or imported text that is not valid JSON, or that lacks tables
\* or relations, is rejected with an error message; the document, the scenario
\* list, the selection and the store stay as they were and no save is issued
C6_RejectedInputChangesNothing ==
  [][(last'.op \in {"submitDocument", "import"} /\ Malformed(RawInput(last'.a))) =>
       /\ error' # NoName
       /\ graph' = graph /\ layers' = layers /\ activeTable' = activeTable
       /\ store' = store /\ pending' = pending]_vars

C6_Witness ==
  /\ last.op \in {"submitDocument", "import"}
  /\ last.a = "noRelations"
  /\ error = "Graph payload must include tables and relations"
  /\ pending = <<>>

\* C7: a startup load that resolves after the user committed an edit, or while
\* an unsaved table draft is in progress, neither replaces the edited document
\* nor discards the draft
C7_LateLoadKeepsEdits ==
  [][(last'.op = "bootstrapLoad"
       /\ (graph # defaultGraph \/ ((isEditing \/ isCreatingTable) /\ draftTable # None))) =>
       graph' = graph /\ draftTable' = draftTable]_vars

\* C8: a save that fails leaves the document, the selection and the mode flags
\* exactly as a save that succeeds leaves them: as the commit made them
C8_FailedSaveKeepsEdit ==
  [][last'.op \in {"saveFailed", "saveDelivered"} => UNCHANGED appVars]_vars

C8_Witness ==
  /\ last.op = "saveFailed"
  /\ graph # defaultGraph
  /\ pending = <<>>
  /\ store = None

CommittedBy(ev) ==
  \/ ev.op \in {"saveDraft", "updateLayoutPosition", "saveScenarioCreation",
                "saveScenarioEdit", "deleteScenario"}
  \/ ev.op \in {"submitDocument", "import"} /\ ev.b = "yes"

\* C9: every successful committing intent makes the new document current and
\* issues exactly one save request, whose body is that document
C9_CommitIssuesOneSave ==
  [][CommittedBy(last') =>
       /\ pending' = Append(pending, serializeGraph(graph'))
       /\ layers' = ScenariosOf(graph')]_vars

C9_Witness ==
  /\ last.op = "saveDraft"
  /\ "new_table" \in TableNameSet(graph)
  /\ pending = <<serializeGraph(graph)>>

DraftOnlyOps ==
  {"changeDraft", "addDraftStep", "removeDraftStep", "reorderDraftStep", "editDraftStep",
   "selectTable", "beginTableCreation", "cancelDraftEdit", "beginScenarioCreation",
   "beginScenarioEdit", "cancelScenarioCreation", "cancelScenarioEdit"}

\* C10: no draft-only intent changes the tables, relations, positions or
\* scenarios of the current document, and none issues a save
C10_DraftIntentsLeaveDocument ==
  [][last'.op \in DraftOnlyOps => graph' = graph /\ pending' = pending]_vars

C10_Witness ==
  /\ last.op = "changeDraft"
  /\ draftTable # None
  /\ \A t \in Range(graph.tables) : t.columns # TheOne(draftTable).columns
  /\ pending = <<>>

\* the drag a state was produced by
DraggedPosition == CHOOSE p \in DragPositions : \E l \in BOOLEAN : DragLabel(p, l) = last.b

DraggedLock == CHOOSE l \in BOOLEAN : \E p \in DragPositions : DragLabel(p, l) = last.b

PositionsOf(g) == OrElse(g.positions, EmptyNodes).at

FirstFreeName(existing) ==
  IF "new_table" \notin existing THEN "new_table"
  ELSE LET free(k) == ("new_table_" \o ToString(k)) \notin existing
           k == CHOOSE k \in 1..(Cardinality(existing) + 1) :
                  free(k) /\ \A j \in 1..(k - 1) : ~free(j)
       IN  "new_table_" \o ToString(k)

\* C13: beginTableCreation names the draft new_table if no table has that
\* name, else new_table_k for the smallest k >= 1 not in use; the name is
\* never the name of an existing table
C13_DraftGetsFirstFreeName ==
  last.op = "beginTableCreation" =>
    /\ draftTable # None
    /\ TheOne(draftTable).name = FirstFreeName(TableNameSet(graph))
    /\ TheOne(draftTable).name \notin TableNameSet(graph)

\* new_table and new_table_2 in use, new_table_1 free: the gap is taken
C13_Witness ==
  /\ last.op = "beginTableCreation"
  /\ TableNameSet(graph) = {"new_table", "new_table_2"}
  /\ TheOne(draftTable).name = "new_table_1"

\* C14: after saveScenarioEdit the saved scenario's steps are the draft steps
\* in draft order, numbered 1..n, whatever operations produced the draft and
\* whatever order values the steps had before; an empty description is saved
\* as the placeholder of its position
C14_SavedStepsAreDraftRenumbered ==
  [][last'.op = "saveScenarioEdit" =>
       LET saved == ScenarioById(graph', last'.a)
       IN  /\ saved # None
           /\ TheOne(saved).steps # None
           /\ LET steps == TheOne(TheOne(saved).steps)
              IN  /\ Len(steps) = Len(flowDrafts)
                  /\ \A i \in 1..Len(steps) :
                        /\ steps[i].order = i
                        /\ steps[i].description =
                             IF flowDrafts[i].description = ""
                             THEN "Step " \o ToString(i)
                             ELSE flowDrafts[i].description]_vars

\* steps stored with order 5 and 9, swapped in the draft and saved
C14_Witness ==
  /\ last.op = "saveScenarioEdit" /\ last.a = "scenario-9"
  /\ ScenarioById(graph, "scenario-9") # None
  /\ TheOne(ScenarioById(graph, "scenario-9")).steps = Some(<<Step(1, "y"), Step(2, "x")>>)

MirrorsForeignKey(rel, fk) ==
  /\ rel.toTable = fk.table
  /\ rel.toColumns = <<fk.column>>
  /\ rel.onUpdate = fk.onUpdate
  /\ rel.onDelete = fk.onDelete

\* C16: in every reachable document each committed column that carries a
\* foreignKey has exactly one relation from its table and column, and that
\* relation mirrors the foreignKey's table, column, onUpdate and onDelete
C16_ForeignKeyColumnsHaveTheirRelation ==
  \A k \in 1..Len(graph.tables) :
    LET t == graph.tables[k]
    IN  \A i \in ColumnsWithForeignKey(t) :
          LET own == { j \in RelationsFrom(graph, t.name) :
                         graph.relations[j].fromColumns = <<t.columns[i].name>> }
          IN  /\ Cardinality(own) = 1
              /\ \A j \in own :
                    MirrorsForeignKey(graph.relations[j], TheOne(t.columns[i].foreignKey))

\* a relation the column editor cannot have authored
IsCompositeRelation(rel) == Len(rel.fromColumns) > 1 \/ Len(rel.toColumns) > 1

RelationSet(g) == { g.relations[j] : j \in 1..Len(g.relations) }

\* C17: a save of table T keeps every relation that originates from T and has more than
\* one fromColumn or more than one toColumn: the relation is in the resulting document
\* unmodified (its fromTable following T's final name, should the save rename T).
C17_CompositeRelationsSurviveSave ==
  [][ last'.op = "saveDraft" =>
        \A rel \in RelationSet(graph) :
          (rel.fromTable = last'.a /\ IsCompositeRelation(rel)) =>
            \/ rel \in RelationSet(graph')
            \/ [rel EXCEPT !.fromTable = last'.b] \in RelationSet(graph') ]_vars

PresentedTableNames == Range(TableNamesOf(displayedGraph(St).tables))

\* C18: once the effects of an intent have settled, the selection is either none or the
\* name of a table of the document presented to the view (the scenario-filtered one).
C18_SelectionIsPresented ==
  activeTable # NoName => activeTable \in PresentedTableNames

\* a table was saved while a scenario that does not name it filters the view: the name
\* the save selected has been cleared
C18_Witness ==
  /\ last.op = "saveDraft"
  /\ last.b \in Range(TableNamesOf(graph.tables))
  /\ last.b \notin PresentedTableNames
  /\ activeTable = NoName

\* C19: after a save of the draft (effects settled) the selection is the saved table
\* under its final name, for a new table as for an edited or renamed one, with or
\* without an active scenario.
C19_SaveSelectsSavedTable ==
  last.op = "saveDraft" => activeTable = last.b

ScenarioFilters ==
  activeLayer(St) # None /\ ~isLayerCreation /\ ~isScenarioEditing

\* sub holds the elements of full that Keep accepts, each as often as full does
IsSubsequenceKeeping(sub, full, Keep(_)) ==
  /\ Range(sub) = { x \in Range(full) : Keep(x) }
  /\ Len(sub) = Cardinality({ i \in 1..Len(full) : Keep(full[i]) })

\* C20: with an active scenario and neither scenario creation nor scenario edit in
\* progress, the presented document holds exactly the tables the scenario names, exactly
\* the relations with both endpoints named, exactly the positions of named tables, and
\* the whole scenario list; otherwise the presented document is the current document.
C20_PresentedDocumentIsScenarioFilter ==
  LET shown == displayedGraph(St)
  IN  IF ~ScenarioFilters THEN shown = graph
      ELSE LET named == Range(TheOne(activeLayer(St)).tableNames)
           IN  /\ IsSubsequenceKeeping(shown.tables, graph.tables,
                                        LAMBDA t : t.name \in named)
               /\ IsSubsequenceKeeping(shown.relations, graph.relations,
                                        LAMBDA rel : rel.fromTable \in named
                                                     /\ rel.toTable \in named)
               /\ (graph.positions = None) = (shown.positions = None)
               /\ graph.positions # None =>
                     /\ DOMAIN PositionsOf(shown) = DOMAIN PositionsOf(graph) \cap named
                     /\ \A n \in DOMAIN PositionsOf(shown) :
                           PositionsOf(shown)[n] = PositionsOf(graph)[n]
               /\ shown.scenarios = graph.scenarios

\* a scenario filters the view and leaves out a table, a relation and a position
C20_Witness ==
  /\ ScenarioFilters
  /\ Len(displayedGraph(St).tables) \in 1..(Len(graph.tables) - 1)
  /\ Len(displayedGraph(St).relations) < Len(graph.relations)
  /\ graph.positions # None
  /\ DOMAIN PositionsOf(displayedGraph(St)) # DOMAIN PositionsOf(graph)
  /\ DOMAIN PositionsOf(displayedGraph(St)) # {}

SaveScenarioCreationOps == {"saveScenarioCreation", "saveScenarioCreationNoop"}

\* C21: saving a scenario draft whose candidate table set is empty changes neither the
\* scenario collection, the document, the active scenario, the creation-mode flag nor
\* the draft name, and issues no save.
C21_EmptyScenarioDraftIsRefused ==
  [][ (last'.op \in SaveScenarioCreationOps /\ layerDraftSelection = <<>>) =>
        /\ layers' = layers
        /\ graph' = graph
        /\ activeLayerId' = activeLayerId
        /\ isLayerCreation' = isLayerCreation
        /\ draftLayerName' = draftLayerName
        /\ pending' = pending
        /\ store' = store ]_vars

\* the save was asked for in creation mode with no candidate table, and refused
C21_Witness ==
  /\ last.op = "saveScenarioCreationNoop"
  /\ isLayerCreation
  /\ layerDraftSelection = <<>>

ScenarioIds(ls) == { ls[i].id : i \in 1..Len(ls) }

\* C22: the id given to a newly created scenario differs from the id of every scenario
\* the document holds at that moment, also when two creations happen without the clock
\* advancing.
C22_NewScenarioIdIsFresh ==
  [][ last'.op = "saveScenarioCreation" => last'.a \notin ScenarioIds(layers) ]_vars

\* the positions of ls whose scenario does not carry the id, in order
OthersThan(ls, id) == { i \in 1..Len(ls) : ls[i].id # id }

\* how many of the positions 1..i of ls are in keep
RankIn(keep, i) == Cardinality({ j \in keep : j <= i })

\* C23: a confirmed deletion removes the active scenario, matched by id, and leaves every
\* other scenario as it was and in the same order, in the scenario collection and in the
\* document; it issues one save of that document and leaves no active scenario and
\* neither creation nor edit mode.  A declined deletion changes neither the document,
\* the active scenario nor a mode flag, and issues no save.
C23_DeletionRemovesActiveScenarioOnly ==
  [][ /\ last'.op = "deleteScenario" =>
            LET keep == OthersThan(layers, activeLayerId)
            IN  /\ Len(layers') = Cardinality(keep)
                /\ \A i \in keep : layers'[RankIn(keep, i)] = layers[i]
                /\ graph' = [graph EXCEPT !.scenarios = Some(layers')]
                /\ pending' = Append(pending, serializeGraph(graph'))
                /\ activeLayerId' = NoName
                /\ ~isLayerCreation' /\ ~isScenarioEditing'
      /\ last'.op = "deleteScenarioDeclined" =>
            /\ graph' = graph /\ layers' = layers
            /\ activeLayerId' = activeLayerId
            /\ isLayerCreation' = isLayerCreation
            /\ isScenarioEditing' = isScenarioEditing
            /\ isEditing' = isEditing /\ isCreatingTable' = isCreatingTable
            /\ pending' = pending /\ store' = store ]_vars

\* the active scenario was deleted and saved: its id is gone, another scenario remains
C23_Witness ==
  /\ last.op = "deleteScenario"
  /\ last.a \notin ScenarioIds(layers)
  /\ Len(layers) >= 1
  /\ pending # <<>>

RequestLabel(method, url) == method \o " " \o url

ResponseLabel(id, status) == id \o " " \o status

C25_StartupLoadReturnsSavedDocument ==
  [][ (last'.op = "bootstrapLoad" /\ graph = defaultGraph) =>
        LET saved == loadSchemaFromFile(store)
        IN  IF saved = None THEN graph' = defaultGraph
            ELSE /\ last'.b = "schemaMiddleware"
                 /\ graph'.tables = TheOne(saved).tables
                 /\ graph'.relations = TheOne(saved).relations
                 /\ graph'.positions = TheOne(saved).positions ]_vars

\* C26: during a drag gesture the document changes and a save is issued only at the
\* release, and only when the released candidate does not overlap another table: the
\* pointer going down and the pointer moving change neither the document nor the saves
\* in flight nor the stored file, and a release on an overlapping candidate leaves the
\* table at its last valid position with nothing committed or saved.
C26_OnlyValidReleaseCommits ==
  [][ /\ last'.op \in {"pointerDown", "pointerMove"} =>
            graph' = graph /\ pending' = pending /\ store' = store
      /\ (last'.op = "pointerRelease" /\ ~drag.isValid) =>
            graph' = graph /\ pending' = pending /\ store' = store /\ drag' = Idle
      /\ (last'.op \in {"pointerDown", "pointerMove", "pointerRelease"}
            /\ (graph' # graph \/ pending' # pending)) =>
            /\ last'.op = "pointerRelease" /\ drag.isValid
            /\ pending' = Append(pending, serializeGraph(graph'))
            /\ drag.table \in DOMAIN PositionsOf(graph') ]_vars

\* a table was moved onto another and released there: no save, same document
C26_Witness ==
  /\ last.op = "pointerRelease"
  /\ last.b = "reverted"
  /\ drag = Idle
  /\ pending = <<>>

\* useTableInstances without an explicit layout: the table at position i of the list
\* stands where the grid has its name
FallbackPlacement(tables, i) == computeFallbackPositions(tables)[tables[i].name]

PrimaryColumns(t) == { i \in 1..Len(t.columns) : t.columns[i].isPrimary }

\* the primaryKey of t names its columns flagged isPrimary, in column order
PrimaryKeyIsDerived(t) ==
  /\ Len(t.primaryKey) = Cardinality(PrimaryColumns(t))
  /\ \A i \in PrimaryColumns(t) : t.primaryKey[RankIn(PrimaryColumns(t), i)] = t.columns[i].name

\* C28: after every change of the draft's columns the draft's primaryKey, and after every
\* save the saved table's primaryKey, is the list of the names of its columns flagged
\* isPrimary, in column order (empty for an empty column list); deriving it again from
\* the result changes nothing.
C28_PrimaryKeyFollowsColumns ==
  [][ /\ (last'.op = "changeDraft" /\ draftTable' # draftTable /\ last'.a = last'.b) =>
            /\ PrimaryKeyIsDerived(TheOne(draftTable'))
            /\ updateTableColumns(TheOne(draftTable'), TheOne(draftTable').columns)
                  = TheOne(draftTable')
      /\ last'.op = "saveDraft" =>
            /\ \E i \in 1..Len(graph'.tables) :
                  /\ graph'.tables[i].name = TheOne(draftTable).name
                  /\ graph'.tables[i].columns = TheOne(draftTable).columns
                  /\ PrimaryKeyIsDerived(graph'.tables[i])
            /\ \A i \in 1..Len(graph'.tables) :
                  (i > Len(graph.tables) \/ graph'.tables[i] # graph.tables[i]) =>
                    PrimaryKeyIsDerived(graph'.tables[i]) ]_vars

\* a table whose stored primaryKey named the wrong column was saved: it now names id
C28_Witness ==
  /\ last.op = "saveDraft"
  /\ last.b = "accounts"
  /\ \E t \in Range(graph.tables) :
        t.name = "accounts" /\ t.primaryKey = <<"id">> /\ Len(t.columns) = 2

\* the relations of g from table name whose fromColumns is exactly <<column>>
RelationsOfColumn(g, name, column) ==
  { j \in 1..Len(g.relations) :
      g.relations[j].fromTable = name /\ g.relations[j].fromColumns = <<column>> }

\* C29: for each foreign-key column c of a saved table, the derived relation keeps the
\* name of the relation the document already had from the table, looked up under the
\* name the table had before the edit, whose fromColumns is exactly [c]; relation names
\* are thus stable across saves, a save that renames the table included.  Only when
\* there is no such relation is the name fk_<table>_<column>.
C29_RelationNamesAreStable ==
  [][ last'.op = "saveDraft" =>
        LET draft == TheOne(draftTable)
            originName == Coalesce(tableEditOrigin, draft.name)
        IN  \A i \in ColumnsWithForeignKey(draft) :
              LET column == draft.columns[i].name
                  before == RelationsOfColumn(graph, originName, column)
                  after == RelationsOfColumn(graph', draft.name, column)
              IN  /\ after # {}
                  /\ \A j \in after :
                        IF before # {}
                        THEN \E k \in before : graph'.relations[j].name = graph.relations[k].name
                        ELSE graph'.relations[j].name
                               = "fk_" \o draft.name \o "_" \o column ]_vars

\* the relation buildRelationsFromColumns matches with a column of the draft: the first
\* relation from a table of the draft's name whose first fromColumn is the column
MatchedRelations(g, name, column) ==
  LET from == { j \in 1..Len(g.relations) :
                  /\ g.relations[j].fromTable = name
                  /\ Len(g.relations[j].fromColumns) >= 1
                  /\ g.relations[j].fromColumns[1] = column }
  IN  { j \in from : \A k \in from : j <= k }

\* the rule a save gives a relation: the column's when set, else the matched relation's
ExpectedRule(own, matched) ==
  IF own # NoName THEN {own}
  ELSE IF matched = {} THEN {NoName}
  ELSE matched

\* C30: for each relation a save derives from a foreign-key column, onDelete (onUpdate)
\* is the value set on the column's foreignKey when one is set, and otherwise the value
\* of the matched relation the document had; a column whose rule is unset thus keeps the
\* old rule of its relation.
C30_RulesFallBackToMatchedRelation ==
  [][ last'.op = "saveDraft" =>
        LET draft == TheOne(draftTable)
        IN  \A i \in ColumnsWithForeignKey(draft) :
              LET column == draft.columns[i].name
                  fk == TheOne(draft.columns[i].foreignKey)
                  matched == MatchedRelations(graph, draft.name, column)
                  oldDelete == { graph.relations[j].onDelete : j \in matched }
                  oldUpdate == { graph.relations[j].onUpdate : j \in matched }
              IN  \E j \in RelationsOfColumn(graph', draft.name, column) :
                    /\ graph'.relations[j].toTable = fk.table
                    /\ graph'.relations[j].onDelete \in ExpectedRule(fk.onDelete, oldDelete)
                    /\ graph'.relations[j].onUpdate \in ExpectedRule(fk.onUpdate, oldUpdate) ]_vars

\* orders was saved with the onUpdate rule of user_id cleared: the column has no rule,
\* its relation still says CASCADE
C30_Witness ==
  /\ last.op = "saveDraft"
  /\ last.b = "orders"
  /\ \E t \in Range(graph.tables) :
        /\ t.name = "orders"
        /\ \E i \in ColumnsWithForeignKey(t) :
              /\ t.columns[i].name = "user_id"
              /\ TheOne(t.columns[i].foreignKey).onUpdate = NoName
  /\ \E j \in RelationsOfColumn(graph, "orders", "user_id") :
        graph.relations[j].onUpdate = "CASCADE"

IndicesNamed(g, name) == { i \in 1..Len(g.tables) : g.tables[i].name = name }

Occurrences(steps, st) == Cardinality({ i \in 1..Len(steps) : steps[i] = st })

\* C33: reorderDraftStep(index, direction) leaves the draft steps unchanged when
\* index + direction is outside the list, and otherwise exchanges the step at index with
\* the one at index + direction; either way the list is a permutation of the previous one.
C33_ReorderExchangesNeighbours ==
  [][ last'.op = "reorderDraftStep" =>
        \E index \in 1..Len(flowDrafts), direction \in {-1, 1} :
          /\ last'.a = ToString(index) /\ last'.b = ToString(direction)
          /\ LET target == index + direction
             IN  IF target \notin 1..Len(flowDrafts)
                 THEN flowDrafts' = flowDrafts
                 ELSE /\ Len(flowDrafts') = Len(flowDrafts)
                      /\ flowDrafts'[target] = flowDrafts[index]
                      /\ flowDrafts'[index] = flowDrafts[target]
                      /\ \A i \in 1..Len(flowDrafts) \ {index, target} :
                            flowDrafts'[i] = flowDrafts[i]
          /\ \A st \in Range(flowDrafts) \cup Range(flowDrafts') :
                Occurrences(flowDrafts', st) = Occurrences(flowDrafts, st) ]_vars

\* the second of three draft steps was moved up: the list begins with it
C33_Witness ==
  /\ last.op = "reorderDraftStep"
  /\ last.a = "2" /\ last.b = "-1"
  /\ Len(flowDrafts) = 3
  /\ flowDrafts[1].order = 2 /\ flowDrafts[2].order = 1

\* the first draft step was moved up: nothing lies above it
C33_WitnessOutside ==
  /\ last.op = "reorderDraftStep"
  /\ last.a = "1" /\ last.b = "-1"
  /\ Len(flowDrafts) >= 2


\* C34: selectTable(name) makes name the selection; while a scenario is being created or
\* edited it also toggles the membership of name in the candidate tables (so that a second
\* selection of the table restores them), and outside both modes it leaves them unchanged.
C34_SelectTableSelectsAndToggles ==
  [][ last'.op = "selectTable" =>
        LET name == last'.a
            candidates == Range(layerDraftSelection)
        IN  /\ activeTable' = name
            /\ IF isLayerCreation \/ isScenarioEditing
               THEN /\ Range(layerDraftSelection') =
                         IF name \in candidates THEN candidates \ {name}
                         ELSE candidates \cup {name}
                    /\ Len(layerDraftSelection') = Cardinality(Range(layerDraftSelection'))
               ELSE layerDraftSelection' = layerDraftSelection ]_vars

\* during the edit of scenario-1 (users, orders) a click on orders removed it from the
\* candidates and selected it
C34_Witness ==
  /\ last.op = "selectTable"
  /\ last.a = "orders"
  /\ isScenarioEditing
  /\ activeLayerId = "scenario-1"
  /\ activeTable = "orders"
  /\ Range(layerDraftSelection) = {"users"}


\* the scenario without its table list
WithoutTables(scenario) == [scenario EXCEPT !.tableNames = <<>>]

\* the two lists hold the same scenarios in the same order, up to their table lists
SameButTables(a, b) ==
  /\ Len(a) = Len(b)
  /\ \A i \in 1..Len(a) : WithoutTables(a[i]) = WithoutTables(b[i])

\* C35: sanitization removes no scenario: after a commit other than deleteScenario the
\* document holds the scenarios of the candidate document, same ids, names, steps and
\* order, differing at most in tableNames; a scenario left without tables is kept.
C35_SanitizationKeepsScenarios ==
  [][ /\ last'.op \in {"saveDraft", "updateLayoutPosition"} =>
           SameButTables(ScenariosOf(graph'), ScenariosOf(graph))
      /\ Incoming # None =>
           SameButTables(ScenariosOf(graph'), ScenariosOf(TheOne(Incoming)))
      /\ last'.op = "saveScenarioCreation" =>
           /\ Len(ScenariosOf(graph')) = Len(layers) + 1
           /\ SameButTables(SubSeq(ScenariosOf(graph'), 1, Len(layers)), layers)
           /\ ScenariosOf(graph')[Len(layers) + 1].id = last'.a
      /\ last'.op = "saveScenarioEdit" =>
           /\ Len(ScenariosOf(graph')) = Len(layers)
           /\ \A i \in 1..Len(layers) :
                 /\ ScenariosOf(graph')[i].id = layers[i].id
                 /\ layers[i].id # activeLayerId =>
                       WithoutTables(ScenariosOf(graph')[i]) = WithoutTables(layers[i]) ]_vars

\* a document was submitted whose scenario names no table it holds: the scenario is in
\* the current document, without tables
C35_Witness ==
  /\ last.op \in {"submitDocument", "import"} /\ last.b = "yes"
  /\ \E i \in 1..Len(ScenariosOf(graph)) : ScenariosOf(graph)[i].tableNames = <<>>


\* the draft is the selected table as the draft sync effect delivers it, untouched
DraftIsUnmodified ==
  /\ isEditing /\ ~isCreatingTable
  /\ selectedTable(St) # None
  /\ tableEditOrigin = TheOne(selectedTable(St)).name
  /\ draftTable = Some(attachColumnForeignKeys(TheOne(selectedTable(St)), graph.relations))

\* the name, and name and key membership of each column, of every table in order
TableOutline(g) ==
  MapSeq(g.tables,
         LAMBDA t : <<t.name, MapSeq(t.columns, LAMBDA col : <<col.name, col.isPrimary>>)>>)

\* C36: saving an unmodified draft is a round trip: after selecting a table T, entering
\* edit mode and saveDraft without a change of the draft, the document has the same tables
\* in the same order and the same set of relations, also those from T with several columns
\* or whose first column coincides with a column's name.
C36_UnmodifiedSaveIsRoundTrip ==
  [][ (last'.op = "saveDraft" /\ DraftIsUnmodified) =>
        /\ TableOutline(graph') = TableOutline(graph)
        /\ RelationSet(graph') = RelationSet(graph) ]_vars


\* C37: when no save fails, once the store has processed every save request in flight the
\* stored document is the current in-memory document, in whatever order the store
\* processes the requests of successive commits.
C37_StoreCatchesUp ==
  [][ (last'.op = "saveDelivered" /\ pending' = <<>>) =>
        store' = Some(serializeGraph(graph')) ]_vars


\* C38: in every settled state a scenario is not being created and edited at once; while
\* one is being created no scenario is active; while one is being edited the active
\* scenario is a scenario of the document; outside both modes no table is a candidate.
C38_ScenarioModesAreConsistent ==
  /\ ~(isLayerCreation /\ isScenarioEditing)
  /\ isLayerCreation => activeLayerId = NoName
  /\ isScenarioEditing =>
        /\ activeLayerId # NoName
        /\ activeLayerId \in ScenarioIds(ScenariosOf(graph))
  /\ ~(isLayerCreation \/ isScenarioEditing) => layerDraftSelection = <<>>


LayoutAndScenarioCommits ==
  {"updateLayoutPosition", "saveScenarioCreation", "saveScenarioEdit", "deleteScenario"}

\* C40: a commit that changes neither tables nor relations (updateLayoutPosition,
\* saveScenarioCreation, saveScenarioEdit, deleteScenario) leaves a table draft in
\* progress, its origin name and the table edit mode as they were: unsaved column edits
\* survive it.
C40_DraftSurvivesOtherCommits ==
  [][ (last'.op \in LayoutAndScenarioCommits
       /\ (isEditing \/ isCreatingTable) /\ draftTable # None) =>
        /\ graph'.tables = graph.tables
        /\ graph'.relations = graph.relations
        /\ draftTable' = draftTable
        /\ tableEditOrigin' = tableEditOrigin
        /\ isEditing' = isEditing
        /\ isCreatingTable' = isCreatingTable ]_vars
====
